---------------------------- MODULE Spec2Model ----------------------------
(***************************************************************************)
(* A model of the luciola anime-library automation (orashi/luciola).       *)
(*                                                                         *)
(* Four subsystems are modelled, each with its own specifications:         *)
(*   JobSpec / JobFairSpec  the in-process job runner (job_runner.py)      *)
(*   ManifestSpec, ManifestApiSpec, ManifestCrashSpec                      *)
(*                          the per-series hash manifest                   *)
(*   Spec, ReconcileSpec    the store: resolver, pipeline, reconciler,     *)
(*                          torrent maintenance, one operation at a time   *)
(*   PollSpec, ReconcileRunSpec, MaintenanceSpec                           *)
(*                          the pipeline on longer feeds, the reconciler   *)
(*                          file by file, the maintenance torrent by       *)
(*                          torrent                                        *)
(*   RequestSpec, SessionSpec, PipelinesSpec                               *)
(*                          the same store written through database        *)
(*                          sessions that interleave                       *)
(*   LostTorrentSpec        the pipeline and the maintenance with the      *)
(*                          torrents of the client, under fairness         *)
(*   SchedulerSpec          the timers of scheduler.py                     *)
(*   FunctionSpec           functions of the pipeline and of the feeds     *)
(*                                                                         *)
(* Python's None is the empty set and a present value v is {v}, so that    *)
(* an optional field can be tested for truthiness the way the code does.   *)
(***************************************************************************)
EXTENDS Integers, Sequences, FiniteSets, Bags, TLC

None == {}
Some(v) == {v}
Val(o) == CHOOSE v \in o : TRUE
\* Python truthiness of an optional number: None and 0 are falsy.
Truthy(o) == o # None /\ o # Some(0)

VARIABLES
  \* ---- job runner (job_runner.py) ----
  jobs,      \* JobRunner._jobs: job id -> Job
  pc,        \* position of each job's worker thread in _execute
  api,       \* the call that holds JobRunner._lock with its writes pending
  ret,       \* what the last get / cancel call returned
  \* ---- hash manifest (hash_manifest.py) ----
  mfile,     \* series key -> content of data/hash-manifests/<series>.json
  mcall,     \* the last manifest call: its arguments and its result
  \* ---- library database (entities.py) ----
  shows,     \* Show rows: show id -> the columns the services read
  episodes,  \* Episode rows (a bag)
  releases,  \* Release rows (a bag)
  report,    \* what the last run of a service returned
  incoming,  \* the video file waiting in the show's incoming folder
  sessions,  \* the database sessions that are open between a select and a commit
  \* ---- scheduler (scheduler.py) ----
  ticks,     \* timer -> where the timer's last invocation is
  \* ---- torrent client (qbit_client.py) ----
  qbit       \* the torrents the client holds, and the Release rows that are old

jobVars == <<jobs, pc, api, ret>>
manifestVars == <<mfile, mcall>>
storeVars == <<shows, episodes, releases, report, incoming, sessions, qbit>>
notJobVars == <<manifestVars, storeVars, ticks>>
notManifestVars == <<jobVars, storeVars, ticks>>
vars == <<jobs, pc, api, ret, mfile, mcall, shows, episodes, releases, report, incoming,
         sessions, ticks, qbit>>

---------------------------------------------------------------------------
(***************************************************************************)
(* Job runner.                                                             *)
(*                                                                         *)
(* Time is kept per job, relative to its started_at: "elapsed" is          *)
(* time.time() - job.started_at, the only time difference the code reads.  *)
(* It saturates at ElapsedCap, above every deadline of the model.          *)
(* finished_at holds the elapsed value at the moment it was written.       *)
(***************************************************************************)
MaxTimeout == 1
WatchdogGrace == 5

\* Jobs are independent entries of _jobs: no statement of job_runner.py reads
\* or writes one job while it handles another.  The model follows one
\* submitted job and keeps a second id that is never registered.
JobIds == {"j1", "j2"}
TimeoutValues == {None} \cup {Some(t) : t \in (-1)..MaxTimeout}
ElapsedCap == MaxTimeout + WatchdogGrace + 1
Terminal == {"done", "failed", "cancelled"}

\* Job(id, kind, payload, timeout_sec) with the dataclass defaults.
NewJob(t) ==
  [status |-> "queued", timeout_sec |-> t, started_at |-> None, elapsed |-> 0,
   finished_at |-> None, result |-> None, error |-> None, cancelled |-> FALSE]

Idle == [op |-> "none", id |-> "none"]

\* submit(): register the job under the lock and start its worker thread.
Submit(j, t) ==
  /\ DOMAIN jobs = {}
  /\ j = "j1"
  /\ api = Idle
  /\ jobs' = jobs @@ (j :> NewJob(t))
  /\ pc' = [pc EXCEPT ![j] = "spawned"]
  /\ UNCHANGED <<api, ret, notJobVars>>

\* A watchdog that forgets the 5 s of grace.
WatchdogDue_NoGrace(job) ==
  /\ job.status = "running"
  /\ job.started_at # None
  /\ Truthy(job.timeout_sec)
  /\ job.elapsed > Val(job.timeout_sec)

\* A watchdog that looks for the wrong status and so never fires on a
\* running job.
WatchdogDue_WrongStatus(job) ==
  /\ job.status = "queued"
  /\ job.started_at # None
  /\ Truthy(job.timeout_sec)
  /\ job.elapsed > Val(job.timeout_sec) + WatchdogGrace

\* The watchdog condition of get().
WatchdogDue(job) ==
  /\ job.status = "running"
  /\ job.started_at # None
  /\ Truthy(job.timeout_sec)
  /\ job.elapsed > Val(job.timeout_sec) + WatchdogGrace

WatchdogError(job) == Some(<<"job watchdog timeout after", Val(job.timeout_sec)>>)

\* get(): takes the lock, looks the job up and evaluates the watchdog
\* condition.  Without a due watchdog the call returns at once.
GetCall(j) ==
  /\ api = Idle
  /\ IF j \notin DOMAIN jobs
       THEN /\ ret' = [op |-> "get", id |-> j, found |-> FALSE, status |-> "none"]
            /\ UNCHANGED api
       ELSE IF WatchdogDue(jobs[j])
         THEN /\ api' = [op |-> "get", id |-> j]
              /\ UNCHANGED ret
         ELSE /\ ret' = [op |-> "get", id |-> j, found |-> TRUE, status |-> jobs[j].status]
              /\ UNCHANGED api
  /\ UNCHANGED <<jobs, pc, notJobVars>>

\* get(): the watchdog's writes, then the return (lock released).
GetWrite ==
  /\ api.op = "get"
  /\ LET j == api.id IN
       /\ jobs' = [jobs EXCEPT ![j] = [jobs[j] EXCEPT !.status = "failed",
                                               !.error = WatchdogError(jobs[j]),
                                               !.finished_at = Some(jobs[j].elapsed)]]
       /\ ret' = [op |-> "get", id |-> j, found |-> TRUE, status |-> "failed"]
  /\ api' = Idle
  /\ UNCHANGED <<pc, notJobVars>>

\* A cancel that marks a running job cancelled at once.
CancelCall_StopsRunning(j) ==
  /\ api = Idle
  /\ IF j \notin DOMAIN jobs
       THEN /\ ret' = [op |-> "cancel", id |-> j, found |-> FALSE, status |-> "none"]
            /\ UNCHANGED <<jobs, api>>
       ELSE IF jobs[j].status \in Terminal
         THEN /\ ret' = [op |-> "cancel", id |-> j, found |-> FALSE, status |-> jobs[j].status]
              /\ UNCHANGED <<jobs, api>>
         ELSE /\ jobs' = [jobs EXCEPT ![j].cancelled = TRUE, ![j].status = "cancelled"]
              /\ ret' = [op |-> "cancel", id |-> j, found |-> TRUE,
                         status |-> "cancelled"]
              /\ UNCHANGED api
  /\ UNCHANGED <<pc, notJobVars>>

\* cancel(): lookup, the terminal-status test, the flag, and the test for
\* "queued"; the writes of the queued branch are CancelWrite.
CancelCall(j) ==
  /\ api = Idle
  /\ IF j \notin DOMAIN jobs
       THEN /\ ret' = [op |-> "cancel", id |-> j, found |-> FALSE, status |-> "none"]
            /\ UNCHANGED <<jobs, api>>
       ELSE IF jobs[j].status \in Terminal
         THEN /\ ret' = [op |-> "cancel", id |-> j, found |-> FALSE, status |-> jobs[j].status]
              /\ UNCHANGED <<jobs, api>>
         ELSE /\ jobs' = [jobs EXCEPT ![j].cancelled = TRUE]
              /\ IF jobs[j].status = "queued"
                   THEN /\ api' = [op |-> "cancel", id |-> j]
                        /\ UNCHANGED ret
                   ELSE /\ ret' = [op |-> "cancel", id |-> j, found |-> TRUE,
                                   status |-> jobs[j].status]
                        /\ UNCHANGED api
  /\ UNCHANGED <<pc, notJobVars>>

CancelWrite ==
  /\ api.op = "cancel"
  /\ LET j == api.id IN
       /\ jobs' = [jobs EXCEPT ![j] = [jobs[j] EXCEPT !.status = "cancelled",
                                               !.finished_at = Some(jobs[j].elapsed)]]
       /\ ret' = [op |-> "cancel", id |-> j, found |-> TRUE, status |-> "cancelled"]
  /\ api' = Idle
  /\ UNCHANGED <<pc, notJobVars>>

\* _execute, first statement: `if job.cancelled` (read without the lock).
WCheckCancelled(j) ==
  /\ pc[j] = "spawned"
  /\ IF jobs[j].cancelled
       THEN /\ jobs' = [jobs EXCEPT ![j] = [jobs[j] EXCEPT !.status = "cancelled",
                                                    !.finished_at = Some(jobs[j].elapsed)]]
            /\ pc' = [pc EXCEPT ![j] = "exit"]
       ELSE /\ pc' = [pc EXCEPT ![j] = "passed"]
            /\ UNCHANGED jobs
  /\ UNCHANGED <<api, ret, notJobVars>>

\* _execute: job.status = "running"; job.started_at = time.time(); fn starts.
WSetRunning(j) ==
  /\ pc[j] = "passed"
  /\ jobs' = [jobs EXCEPT ![j] = [jobs[j] EXCEPT !.status = "running",
                                          !.started_at = Some(0),
                                          !.elapsed = 0]]
  /\ pc' = [pc EXCEPT ![j] = "fn"]
  /\ UNCHANGED <<api, ret, notJobVars>>

\* _execute: fn returned (ok) or raised; result/status or error/status, then
\* the finally clause's finished_at.
WFinish(j, ok) ==
  /\ pc[j] = "fn"
  /\ jobs' = [jobs EXCEPT ![j] =
       IF ok THEN [jobs[j] EXCEPT !.result = Some("result"), !.status = "done",
                                  !.finished_at = Some(jobs[j].elapsed)]
             ELSE [jobs[j] EXCEPT !.error = Some(<<"fn raised", 0>>), !.status = "failed",
                                  !.finished_at = Some(jobs[j].elapsed)]]
  /\ pc' = [pc EXCEPT ![j] = "exit"]
  /\ UNCHANGED <<api, ret, notJobVars>>

\* _execute: t.join(timeout_sec) ran out with fn still alive: TimeoutError.
\* The worker uses its own timeout_sec argument, equal to job.timeout_sec.
WJoinTimeout(j) ==
  /\ pc[j] = "fn"
  /\ jobs[j].timeout_sec # None
  /\ Val(jobs[j].timeout_sec) > 0
  /\ jobs[j].elapsed >= Val(jobs[j].timeout_sec)
  /\ jobs' = [jobs EXCEPT ![j] =
       [jobs[j] EXCEPT !.error = Some(<<"job timeout after", Val(jobs[j].timeout_sec)>>),
                       !.status = "failed",
                       !.finished_at = Some(jobs[j].elapsed)]]
  /\ pc' = [pc EXCEPT ![j] = "abandoned"]
  /\ UNCHANGED <<api, ret, notJobVars>>

\* _target: fn returns or raises after the worker gave up; only box is written.
FnLateReturn(j) ==
  /\ pc[j] = "abandoned"
  /\ pc' = [pc EXCEPT ![j] = "exit"]
  /\ UNCHANGED <<jobs, api, ret, notJobVars>>

\* The job's clock is still read or written: by the watchdog test (status
\* running), by the worker (join deadline, finished_at) or by a pending write.
ClockLive(j) ==
  /\ jobs[j].started_at # None
  /\ jobs[j].elapsed < ElapsedCap
  /\ \/ pc[j] \in {"spawned", "passed", "fn"}
     \/ jobs[j].status = "running"
     \/ (api.op # "none" /\ api.id = j)

\* One second passes for every job whose clock is live.
Tick ==
  /\ \E j \in DOMAIN jobs : ClockLive(j)
  /\ jobs' = [j \in DOMAIN jobs |->
                IF ClockLive(j) THEN [jobs[j] EXCEPT !.elapsed = @ + 1] ELSE jobs[j]]
  /\ UNCHANGED <<pc, api, ret, notJobVars>>

JobInit ==
  /\ jobs = << >>
  /\ pc = [j \in JobIds |-> "idle"]
  /\ api = Idle
  /\ ret = [op |-> "none", id |-> "none", found |-> FALSE, status |-> "none"]

JobNext ==
  \/ \E j \in JobIds, t \in TimeoutValues : Submit(j, t)
  \/ \E j \in JobIds : GetCall(j)
  \/ GetWrite
  \/ \E j \in JobIds : CancelCall(j)
  \/ CancelWrite
  \/ \E j \in JobIds : WCheckCancelled(j)
  \/ \E j \in JobIds : WSetRunning(j)
  \/ \E j \in JobIds, ok \in BOOLEAN : WFinish(j, ok)
  \/ \E j \in JobIds : WJoinTimeout(j)
  \/ \E j \in JobIds : FnLateReturn(j)
  \/ Tick

\* Scheduling assumptions for the liveness claim: threads that are runnable
\* run (the worker reaches fn, a call that holds the lock finishes), time
\* passes, and the caller keeps calling get and keeps getting the lock.
\* Nothing is assumed about fn returning or the join deadline being noticed:
\* the worker may stay wedged in fn forever.
JobFairness ==
  /\ WF_vars(Tick)
  /\ WF_vars(GetWrite)
  /\ WF_vars(CancelWrite)
  /\ \A j \in JobIds : WF_vars(WCheckCancelled(j)) /\ WF_vars(WSetRunning(j))
  /\ \A j \in JobIds : SF_vars(GetCall(j))

---------------------------------------------------------------------------
(***************************************************************************)
(* Hash manifest (hash_manifest.py).                                       *)
(*                                                                         *)
(* One JSON document per series.  A document is modelled by its two        *)
(* dictionaries; the timestamps (updated_at) and the file size of an entry *)
(* are left out: no function of the module reads them.                     *)
(***************************************************************************)
MaxSeason == 2
MaxEpNo == 2
NumHashes == 2

Series == {"Demo Show"}
Seasons == 1..MaxSeason
EpNos == 1..MaxEpNo
\* MD5 digests as compute_md5 returns them (32 hex characters, never empty).
Hashes == {<<"md5", i>> : i \in 1..NumHashes}
Exts == {".mkv", ".mp4"}

RECURSIVE Digits(_)
\* The decimal digits of n >= 0, most significant first.
Digits(n) == IF n < 10 THEN <<n>> ELSE Append(Digits(n \div 10), n % 10)

\* f"{int(n):02d}" for n >= 0.
Pad2(n) == IF n < 10 THEN <<0, n>> ELSE Digits(n)

\* episode_key: f"S{int(season):02d}E{int(ep_no):02d}".
EpisodeKey(season, ep_no) == <<"S">> \o Pad2(season) \o <<"E">> \o Pad2(ep_no)

Keys == {EpisodeKey(se, ep) : se \in Seasons, ep \in EpNos}

\* The path organize_file returns: <root>/Season NN/<safe> - SNNENN<ext>.
OrganizedPath(season, ep_no, ext) ==
  <<"Season", Pad2(season), EpisodeKey(season, ep_no), ext>>

NoFile == [kind |-> "absent"]
EmptyDict == << >>

\* _default_manifest
DefaultManifest == [episodes |-> EmptyDict, hash_index |-> EmptyDict]

\* json.dumps of a manifest, as save_manifest writes it.
JsonDump(manifest) == [kind |-> "json", doc |-> manifest]

\* load_manifest on a file's content: the default when the file is missing
\* or does not parse to an object, else the parsed document (both
\* dictionaries are always written, so setdefault adds nothing).
LoadFile(content) ==
  IF content.kind = "json" THEN content.doc ELSE DefaultManifest

\* load_manifest
LoadManifest(series) == LoadFile(mfile[series])

\* dict.get(key): None when the key is absent.
DictGet(d, k) == IF k \in DOMAIN d THEN Some(d[k]) ELSE None
\* d[k] = v on a dictionary.
DictSet(d, k, v) == [x \in (DOMAIN d) \cup {k} |-> IF x = k THEN v ELSE d[x]]

\* check_mapping_consistency that reports a hash indexed under any key,
\* its own included.
CheckMappingConsistency_AnyIndexed(series, season, ep_no, md5) ==
  LET manifest == LoadManifest(series)
      key == EpisodeKey(season, ep_no)
      indexed == DictGet(manifest.hash_index, md5)
      existing == DictGet(manifest.episodes, key)
      r1 == IF indexed # None
              THEN << <<"hash_conflicts_with", Val(indexed)>> >> ELSE << >>
      r2 == IF existing # None /\ Val(existing).md5 # md5
              THEN << <<"episode_md5_mismatch">> >> ELSE << >>
  IN [ok |-> Len(r1 \o r2) = 0, reasons |-> r1 \o r2]

\* check_mapping_consistency that forgets the reverse index.
CheckMappingConsistency_NoIndex(series, season, ep_no, md5) ==
  LET manifest == LoadManifest(series)
      key == EpisodeKey(season, ep_no)
      existing == DictGet(manifest.episodes, key)
      r2 == IF existing # None /\ Val(existing).md5 # md5
              THEN << <<"episode_md5_mismatch">> >> ELSE << >>
  IN [ok |-> Len(r2) = 0, reasons |-> r2]

\* check_mapping_consistency: the reasons in the order the code appends them.
CheckMappingConsistency(series, season, ep_no, md5) ==
  LET manifest == LoadManifest(series)
      key == EpisodeKey(season, ep_no)
      indexed == DictGet(manifest.hash_index, md5)
      existing == DictGet(manifest.episodes, key)
      r1 == IF indexed # None /\ Val(indexed) # key
              THEN << <<"hash_conflicts_with", Val(indexed)>> >> ELSE << >>
      r2 == IF existing # None /\ Val(existing).md5 # md5
              THEN << <<"episode_md5_mismatch">> >> ELSE << >>
  IN [ok |-> Len(r1 \o r2) = 0, reasons |-> r1 \o r2]

\* record_episode_hash that starts from an empty document instead of the
\* loaded one.
RecordedManifest_Fresh(series, season, ep_no, path, md5) ==
  LET key == EpisodeKey(season, ep_no)
  IN [episodes |-> DictSet(EmptyDict, key, [md5 |-> md5, path |-> path]),
      hash_index |-> DictSet(EmptyDict, md5, key)]

\* record_episode_hash: the document it saves.
RecordedManifest(series, season, ep_no, path, md5) ==
  LET manifest == LoadManifest(series)
      key == EpisodeKey(season, ep_no)
  IN [episodes |-> DictSet(manifest.episodes, key, [md5 |-> md5, path |-> path]),
      hash_index |-> DictSet(manifest.hash_index, md5, key)]

NoCall == [fn |-> "none"]

\* A direct call of check_mapping_consistency (read-only).
CheckCall(series, season, ep_no, md5) ==
  /\ mcall' = [fn |-> "check", series |-> series, season |-> season, ep_no |-> ep_no,
               md5 |-> md5,
               result |-> CheckMappingConsistency(series, season, ep_no, md5)]
  /\ UNCHANGED <<mfile, notManifestVars>>

\* A direct call of record_episode_hash: load, modify, save_manifest.  When
\* the file at path does not exist, file_path.stat() raises before anything
\* is saved.
RecordCall(series, season, ep_no, path, md5, exists) ==
  /\ IF exists
       THEN mfile' = [mfile EXCEPT ![series] =
              JsonDump(RecordedManifest(series, season, ep_no, path, md5))]
       ELSE UNCHANGED mfile
  /\ mcall' = [fn |-> "record", series |-> series, season |-> season, ep_no |-> ep_no,
               md5 |-> md5, path |-> path, raised |-> ~exists]
  /\ UNCHANGED notManifestVars

\* The reconciler's step for one episode_confident file (reconcile_library):
\* the consistency check; on failure the file goes to Needs-Review and the
\* manifest is left alone, else organize_file and record_episode_hash.
OrganizeStep(series, season, ep_no, ext, md5) ==
  LET check == CheckMappingConsistency(series, season, ep_no, md5) IN
  /\ IF check.ok
       THEN mfile' = [mfile EXCEPT ![series] =
              JsonDump(RecordedManifest(series, season, ep_no,
                                        OrganizedPath(season, ep_no, ext), md5))]
       ELSE UNCHANGED mfile
  /\ mcall' = [fn |-> "organize", series |-> series, season |-> season, ep_no |-> ep_no,
               md5 |-> md5, ext |-> ext, result |-> check]
  /\ UNCHANGED notManifestVars

\* What is on disk at the paths of some manifest entries: for each path the
\* MD5 of the file there now, None when there is no file.
DiskStates(paths) == [paths -> {None} \cup {Some(h) : h \in Hashes}]

\* The paths recorded for the episodes start_ep..end_ep of a season.
RecordedPaths(series, season, start_ep, end_ep) ==
  LET entries == LoadManifest(series).episodes
  IN {entries[k].path :
        k \in {EpisodeKey(season, ep) : ep \in start_ep..end_ep} \cap DOMAIN entries}

RECURSIVE VerifyRangeAgainstManifest_NoExistsTest(_, _, _, _, _)
\* verify_range_against_manifest that hashes the path without looking
\* whether a file is there: a missing file hashes to nothing, which differs
\* from the recorded MD5.
VerifyRangeAgainstManifest_NoExistsTest(series, season, start_ep, end_ep, disk) ==
  IF start_ep > end_ep THEN << >>
  ELSE LET key == EpisodeKey(season, start_ep)
           entry == DictGet(LoadManifest(series).episodes, key)
           mismatch ==
             IF entry = None
               THEN << [episode |-> key, status |-> "missing_manifest_entry"] >>
             ELSE IF disk[Val(entry).path] # Some(Val(entry).md5)
               THEN << [episode |-> key, status |-> "md5_mismatch",
                        expected_md5 |-> Val(entry).md5,
                        actual_md5 |-> disk[Val(entry).path],
                        path |-> Val(entry).path] >>
             ELSE << >>
       IN mismatch \o
          VerifyRangeAgainstManifest_NoExistsTest(series, season, start_ep + 1, end_ep, disk)

RECURSIVE VerifyRangeAgainstManifest(_, _, _, _, _)
\* verify_range_against_manifest: the mismatches of range(start_ep,
\* end_ep + 1) in order; for each episode the first test that fails.
VerifyRangeAgainstManifest(series, season, start_ep, end_ep, disk) ==
  IF start_ep > end_ep THEN << >>
  ELSE LET key == EpisodeKey(season, start_ep)
           entry == DictGet(LoadManifest(series).episodes, key)
           mismatch ==
             IF entry = None
               THEN << [episode |-> key, status |-> "missing_manifest_entry"] >>
             ELSE IF disk[Val(entry).path] = None
               THEN << [episode |-> key, status |-> "missing_file",
                        path |-> Val(entry).path] >>
             ELSE IF Val(entry).md5 # Val(disk[Val(entry).path])
               THEN << [episode |-> key, status |-> "md5_mismatch",
                        expected_md5 |-> Val(entry).md5,
                        actual_md5 |-> disk[Val(entry).path],
                        path |-> Val(entry).path] >>
             ELSE << >>
       IN mismatch \o VerifyRangeAgainstManifest(series, season, start_ep + 1, end_ep, disk)

\* A call of verify_range_against_manifest, as scripts/verify_hash_range.py
\* makes it.
VerifyCall(series, season, start_ep, end_ep, disk) ==
  /\ mcall' = [fn |-> "verify", series |-> series, season |-> season,
               start_ep |-> start_ep, end_ep |-> end_ep, disk |-> disk,
               mismatches |->
                 VerifyRangeAgainstManifest(series, season, start_ep, end_ep, disk)]
  /\ UNCHANGED <<mfile, notManifestVars>>

\* A manifest file that holds the beginning of a document: Path.write_text
\* opens the file for writing, which empties it, and then writes the text.
TornFile == [kind |-> "torn"]

\* record_episode_hash in a process that dies inside save_manifest: before
\* write_text has opened the file, after it has, or after the text is out.
RecordCrash(series, season, ep_no, path, md5, died) ==
  /\ mfile' = [mfile EXCEPT ![series] =
                 CASE died = "before open" -> @
                   [] died = "writing" -> TornFile
                   [] died = "written" ->
                        JsonDump(RecordedManifest(series, season, ep_no, path, md5))]
  /\ mcall' = [fn |-> "crash", series |-> series, season |-> season, ep_no |-> ep_no,
               md5 |-> md5, path |-> path, died |-> died]
  /\ UNCHANGED notManifestVars

ManifestInit ==
  /\ mfile = [sr \in Series |-> NoFile]
  /\ mcall = NoCall

\* The manifest functions called directly, in any order.
ManifestApiNext ==
  \/ \E sr \in Series, se \in Seasons, ep \in EpNos, h \in Hashes :
       CheckCall(sr, se, ep, h)
  \/ \E sr \in Series, se \in Seasons, ep \in EpNos, x \in Exts, h \in Hashes,
          exists \in BOOLEAN :
       RecordCall(sr, se, ep, OrganizedPath(se, ep, x), h, exists)

\* The manifest as the reconciler uses it, one organize step after another,
\* and as the verification script reads it.
ManifestNext ==
  \/ \E sr \in Series, se \in Seasons, ep \in EpNos, x \in Exts, h \in Hashes :
       OrganizeStep(sr, se, ep, x, h)
  \/ \E sr \in Series, se \in Seasons, start_ep \in EpNos, end_ep \in EpNos :
       \E disk \in DiskStates(RecordedPaths(sr, se, start_ep, end_ep)) :
         VerifyCall(sr, se, start_ep, end_ep, disk)

\* The reconciler's organize steps in a process that can die and be started
\* again.
ManifestCrashNext ==
  \/ \E sr \in Series, se \in Seasons, ep \in EpNos, x \in Exts, h \in Hashes :
       OrganizeStep(sr, se, ep, x, h)
  \/ \E sr \in Series, se \in Seasons, ep \in EpNos, x \in Exts, h \in Hashes,
          died \in {"before open", "writing", "written"} :
       /\ CheckMappingConsistency(sr, se, ep, h).ok
       /\ RecordCrash(sr, se, ep, OrganizedPath(se, ep, x), h, died)

---------------------------------------------------------------------------
(***************************************************************************)
(* Library database: Show, Episode and Release rows, and the services that *)
(* write them (anime_db.py, pipeline.py, reconciler.py,                    *)
(* qbit_maintenance.py, routes.py).                                        *)
(*                                                                         *)
(* A table is a bag of rows: the schema has no uniqueness constraint       *)
(* besides the primary key, and the key itself is never read.  One show is *)
(* followed.  The services loop over the shows and touch, in each          *)
(* iteration, only the rows of that show, so an action is one iteration;   *)
(* the runs are sequential here.                                           *)
(***************************************************************************)
MaxEp == 2
MaxCandidates == 2
\* settings.max_add_per_show_per_cycle (5 unless configured otherwise)
max_add_per_show_per_cycle == 1

ShowIds == {1}
TitleOf(s) == "Demo Show"
MediaIds == {100, 200}
CatalogStatuses == {"RELEASING", "FINISHED"}

Max(a, b) == IF a >= b THEN a ELSE b

\* q[:n]
Take(q, n) == SubSeq(q, 1, IF Len(q) < n THEN Len(q) ELSE n)

One(row) == SetToBag({row})

EpisodeRow(s, n, st) == [show_id |-> s, ep_no |-> n, state |-> st]
ReleaseRow(s, n, link) == [show_id |-> s, ep_no |-> n, magnet_or_torrent |-> link]

\* select(T).where(T.show_id == s).all()
RowsOf(table, s) == {r \in BagToSet(table) : r.show_id = s}

\* select(Episode).where(show_id == s, ep_no == n).first(): a matching row,
\* None when there is none.
FirstEpisode(table, s, n) ==
  LET found == {r \in RowsOf(table, s) : r.ep_no = n}
  IN IF found = {} THEN None ELSE Some(CHOOSE r \in found : TRUE)

\* A write of row.state that marks the row downloaded whatever it is given.
SetState_Downloaded(table, row, st) ==
  IF row.state = "downloaded" THEN table
  ELSE (table (-) One(row)) (+) One([row EXCEPT !.state = "downloaded"])

\* row.state = st on one row of the table.
SetState(table, row, st) ==
  IF row.state = st THEN table
  ELSE (table (-) One(row)) (+) One([row EXCEPT !.state = st])

\* A response of the catalog for one title: the fields the resolver reads,
\* and aired_max, the largest episode of the airing schedule already aired
\* (0 when the schedule is empty or its request fails).
Media ==
  [id : MediaIds, status : CatalogStatuses,
   episodes : {None} \cup {Some(n) : n \in 1..MaxEp},
   nextAiringEpisode : {None, Some(MaxEp)},
   aired_max : {0, MaxEp}]

\* _status_map
StatusMap(st) ==
  CASE st = "RELEASING" -> "airing"
    [] st = "FINISHED" -> "finished"
    [] st = "NOT_YET_RELEASED" -> "planned"
    [] OTHER -> "airing"

\* _fetch_aired_upto, after the schedule has been paged through.
FetchAiredUpto(aired_max, status, total_eps, next_air_ep) ==
  IF aired_max > 0 THEN aired_max
  ELSE IF Truthy(next_air_ep) /\ Val(next_air_ep) > 0 THEN Max(0, Val(next_air_ep) - 1)
  ELSE IF status = "finished" /\ Truthy(total_eps) THEN Val(total_eps)
  ELSE 0

\* _cleanup_overflow_rows that spares no row.
CleanupOverflowRows_All(table, s, total_eps) ==
  IF ~Truthy(total_eps) THEN table
  ELSE LET keep == {r \in BagToSet(table) :
                      ~(r.show_id = s /\ r.ep_no > Val(total_eps))}
       IN [r \in keep |-> table[r]]

\* _cleanup_overflow_rows
CleanupOverflowRows(table, s, total_eps) ==
  IF ~Truthy(total_eps) THEN table
  ELSE LET keep == {r \in BagToSet(table) :
                      ~(r.show_id = s /\ r.ep_no > Val(total_eps)
                        /\ r.state # "downloaded")}
       IN [r \in keep |-> table[r]]

\* by_no = {r.ep_no: r for r in rows}
ByNo(table, s) ==
  [n \in {r.ep_no : r \in RowsOf(table, s)} |->
     CHOOSE r \in RowsOf(table, s) : r.ep_no = n]

RECURSIVE SyncLoop(_, _, _, _, _, _)
\* The loop of _sync_episode_rows from ep_no on.
SyncLoop(table, by_no, s, ep_no, max_ep, aired_upto) ==
  IF ep_no > max_ep THEN table
  ELSE LET desired == IF ep_no <= aired_upto THEN "aired" ELSE "planned"
           next == IF ep_no \notin DOMAIN by_no
                     THEN table (+) One(EpisodeRow(s, ep_no, desired))
                   ELSE IF by_no[ep_no].state = "downloaded" THEN table
                   ELSE SetState(table, by_no[ep_no], desired)
       IN SyncLoop(next, by_no, s, ep_no + 1, max_ep, aired_upto)

\* _sync_episode_rows
SyncEpisodeRows(table, s, total_eps, aired_upto) ==
  LET max_ep == Max(IF Truthy(total_eps) THEN Val(total_eps) ELSE aired_upto, aired_upto)
  IN CleanupOverflowRows(SyncLoop(table, ByNo(table, s), s, 1, max_ep, aired_upto),
                         s, total_eps)

\* total_eps of a request body: Optional[int], not validated.
TotalEpsValues == {None} \cup {Some(n) : n \in 0..MaxEp}

\* POST /shows: a new show (the title is not taken yet).
AddShow(s, total_eps) ==
  /\ s \notin DOMAIN shows
  /\ shows' = shows @@ (s :> [bangumi_id |-> None, status |-> "airing",
                              total_eps |-> total_eps])
  /\ report' = [op |-> "add_show", show_id |-> s]
  /\ UNCHANGED <<episodes, releases, incoming, sessions, ticks, qbit, jobVars, manifestVars>>

\* POST /intake for one show of the payload (aliases and profile are not
\* modelled): the show is created, or its missing total_eps is filled in.
Intake(s, total_eps) ==
  /\ IF s \notin DOMAIN shows
       THEN shows' = shows @@ (s :> [bangumi_id |-> None, status |-> "airing",
                                     total_eps |-> total_eps])
       ELSE IF Truthy(total_eps) /\ ~Truthy(shows[s].total_eps)
         THEN shows' = [shows EXCEPT ![s].total_eps = total_eps]
         ELSE UNCHANGED shows
  /\ report' = [op |-> "intake", show_id |-> s,
                upserted |-> IF s \notin DOMAIN shows THEN 1 ELSE 0]
  /\ UNCHANGED <<episodes, releases, incoming, sessions, ticks, qbit, jobVars, manifestVars>>

\* The body of one iteration of sync_authentic_anime_info.  by_id is the answer of
\* _media_by_id (asked only when the show has a catalog id), search the
\* answer of _pick_best_media (asked only when there is no media yet).
SyncShowWith(s, by_id, search) ==
  /\ LET show == shows[s]
         media == IF by_id # None THEN by_id ELSE search
         bangumi_id == IF by_id = None /\ search # None
                         THEN Some(Val(search).id) ELSE show.bangumi_id
     IN IF media = None
          THEN /\ episodes' = CleanupOverflowRows(episodes, s, show.total_eps)
               /\ shows' = [shows EXCEPT ![s].bangumi_id = bangumi_id]
               /\ report' = [op |-> "sync", show_id |-> s, matched |-> FALSE,
                             by_id_failed |-> Truthy(show.bangumi_id),
                             searched |-> by_id = None,
                             transient_fetch_failure |-> Truthy(bangumi_id)]
          ELSE LET m == Val(media)
                   status == StatusMap(m.status)
                   total_eps == IF Truthy(m.episodes) THEN m.episodes ELSE show.total_eps
                   next_air_ep == IF Truthy(m.nextAiringEpisode)
                                    THEN m.nextAiringEpisode ELSE None
                   aired_upto == FetchAiredUpto(m.aired_max, status, total_eps, next_air_ep)
               IN /\ shows' = [shows EXCEPT ![s] = [bangumi_id |-> bangumi_id,
                                                    status |-> status,
                                                    total_eps |-> total_eps]]
                  /\ episodes' = SyncEpisodeRows(episodes, s, total_eps, aired_upto)
                  /\ report' = [op |-> "sync", show_id |-> s, matched |-> TRUE,
                                by_id_failed |-> Truthy(show.bangumi_id) /\ by_id = None,
                                searched |-> by_id = None,
                                transient_fetch_failure |-> FALSE,
                                aired_upto |-> aired_upto]
  /\ UNCHANGED <<releases, incoming, sessions, ticks, qbit, jobVars, manifestVars>>

\* What _media_by_id can answer for a show: nothing when the show has no
\* catalog id (it is not asked) or the request fails, else the media of that
\* id.
ByIdAnswers(show) ==
  IF Truthy(show.bangumi_id)
    THEN {None} \cup {Some(m) : m \in {x \in Media : x.id = Val(show.bangumi_id)}}
    ELSE {None}

\* What _pick_best_media can answer: it is asked only when there is no media
\* yet; the best candidate of the search, or nothing.
SearchAnswers(by_id) ==
  IF by_id = None THEN {None} \cup {Some(m) : m \in Media} ELSE {None}

\* One iteration of sync_authentic_anime_info, for every answer of the
\* catalog.
SyncShow(s) ==
  /\ s \in DOMAIN shows
  /\ \E by_id \in ByIdAnswers(shows[s]) : \E search \in SearchAnswers(by_id) :
       SyncShowWith(s, by_id, search)

\* reconcile_library for one media file of the show's incoming folder.
\* confident: the name analysis and the runtime probe leave the file
\* episode_confident.  A file that is not, or whose episode is past
\* total_eps, or that fails the manifest check, is moved aside and the
\* database is left alone; else the file is organized, its hash recorded and
\* the episode row upserted as downloaded.
ReconcileFile(s, season, ep, ext, md5, confident) ==
  /\ s \in DOMAIN shows
  /\ LET out_of_range == Truthy(shows[s].total_eps) /\ ep > Val(shows[s].total_eps)
         check == CheckMappingConsistency(TitleOf(s), season, ep, md5)
         organized == confident /\ ~out_of_range /\ check.ok
         row == FirstEpisode(episodes, s, ep)
     IN /\ IF organized
             THEN /\ mfile' = [mfile EXCEPT ![TitleOf(s)] =
                         JsonDump(RecordedManifest(TitleOf(s), season, ep,
                                                   OrganizedPath(season, ep, ext), md5))]
                  /\ episodes' = IF row = None
                                   THEN episodes (+) One(EpisodeRow(s, ep, "downloaded"))
                                   ELSE SetState(episodes, Val(row), "downloaded")
             ELSE UNCHANGED <<mfile, episodes>>
        /\ report' = [op |-> "reconcile", show_id |-> s, ep_no |-> ep,
                      organized |-> organized]
  /\ UNCHANGED <<shows, releases, incoming, mcall, sessions, ticks, qbit, jobVars>>

\* A media file of the show's incoming folder, by what reconcile_library
\* reads from its path and content: the extra-keyword hits and the explicit
\* episode pattern of the relative path, the episode number parsed from the
\* name (None: none found) and the MD5 of the content.  The folder holds at
\* most one such file at a time: the iterations of the file loop share only
\* the session and the manifest, which persist between runs as well.
IncomingFiles ==
  [has_extra_keyword : BOOLEAN, explicit_episode_signal : BOOLEAN,
   ep : {None} \cup {Some(n) : n \in 1..MaxEp}, file_md5 : Hashes]

\* What a run finds out about the file: downloading (its torrent is below
\* 99.9 %), fresh (no torrent, younger than 180 s), complete (its torrent is
\* done) or settled (no torrent, old enough); whether ffprobe accepts it;
\* its duration in minutes (None: the probe fails).
FileDurations == {None, Some(12), Some(24), Some(48)}
\* The durations probed from the episodes already in the library.
LibraryDurations == {<< >>, <<24, 24>>, <<20, 24, 48>>}

\* statistics.median
Median(q) ==
  LET n == Len(q)
      rank(i) == Cardinality({j \in 1..n : q[j] < q[i] \/ (q[j] = q[i] /\ j < i)})
      at(k) == q[CHOOSE i \in 1..n : rank(i) = k - 1]
  IN IF n % 2 = 1 THEN at((n + 1) \div 2)
     ELSE (at(n \div 2) + at(n \div 2 + 1)) \div 2

\* _collect_show_runtime_baseline_seconds
RuntimeBaseline(durations) ==
  IF Len(durations) < 3 THEN None ELSE Some(Median(durations))

\* _is_runtime_outlier with a one-sided test.
IsRuntimeOutlier_TooLongOnly(duration_sec, baseline_sec) ==
  IF duration_sec = None \/ baseline_sec = None THEN FALSE
  ELSE IF Val(baseline_sec) <= 0 THEN FALSE
  ELSE 10 * Val(duration_sec) > 18 * Val(baseline_sec)

\* _is_runtime_outlier: below 0.55 or above 1.8 times the baseline.
IsRuntimeOutlier(duration_sec, baseline_sec) ==
  IF duration_sec = None \/ baseline_sec = None THEN FALSE
  ELSE IF Val(baseline_sec) <= 0 THEN FALSE
  ELSE \/ 100 * Val(duration_sec) < 55 * Val(baseline_sec)
       \/ 10 * Val(duration_sec) > 18 * Val(baseline_sec)

\* confident_ep of _extract_episode_with_confidence: every branch that finds
\* an episode returns the explicit-signal test of the path as confidence.
ConfidentEp(f) == f.ep # None /\ f.explicit_episode_signal

\* The classification of a ready, valid file and the reasons it adds.
Classify(f, total_eps, duration_sec, runtime_baseline) ==
  IF f.has_extra_keyword /\ f.explicit_episode_signal
    THEN [classification |-> "needs_review",
          reasons |-> {"extra_keyword", "conflicting_signals"}]
  ELSE IF f.has_extra_keyword
    THEN [classification |-> "extra_known", reasons |-> {"extra_keyword"}]
  ELSE IF f.ep = None \/ ~ConfidentEp(f)
    THEN [classification |-> "needs_review", reasons |-> {}]
  ELSE IF Truthy(total_eps) /\ Val(f.ep) > Val(total_eps)
    THEN [classification |-> "needs_review", reasons |-> {"episode_out_of_range"}]
  ELSE IF IsRuntimeOutlier(duration_sec, runtime_baseline)
    THEN [classification |-> "needs_review", reasons |-> {"runtime_outlier"}]
  ELSE [classification |-> "episode_confident", reasons |-> {}]

\* A file loop that takes every file it scans.
Eligible_Always(status) == TRUE

\* The two guards at the head of the file loop: a file whose torrent is
\* still downloading, or that has no finished torrent and is younger than
\* 180 s, is left where it is.
Eligible(status) == status \in {"complete", "settled"}

\* An organize step that does not wait for the manifest check.
Organizes_Unchecked(classification, manifest_ok) == classification = "episode_confident"

\* The file reaches organize_file: it is episode_confident and the manifest
\* check passes.
Organizes(classification, manifest_ok) ==
  classification = "episode_confident" /\ manifest_ok

\* The upsert of the Episode row that leaves an existing row as it is.
UpsertDownloaded_CreateOnly(table, s, ep_no) ==
  IF FirstEpisode(table, s, ep_no) = None
    THEN table (+) One(EpisodeRow(s, ep_no, "downloaded"))
    ELSE table

\* The upsert of the Episode row after organize_file.
UpsertDownloaded(table, s, ep_no) ==
  LET row == FirstEpisode(table, s, ep_no)
  IN IF row = None THEN table (+) One(EpisodeRow(s, ep_no, "downloaded"))
     ELSE SetState(table, Val(row), "downloaded")

\* _infer_season of the show's title (it names no season).
InferSeason(s) == 1

ExtrasPath(bucket, f) == <<"Extras", bucket, f>>
TorrentHash(f) == <<"torrent-of", f>>

\* What one run of reconcile_library can meet: nothing to find out without a
\* file; else the status of the file and, for a file it takes, the probes
\* and whether torrents_delete succeeds.
ReconcileEnvs(file) ==
  IF file = None
    THEN {[status |-> "settled", valid |-> TRUE, duration |-> None,
           library |-> << >>, delete_ok |-> TRUE]}
    ELSE {[status |-> st, valid |-> TRUE, duration |-> None,
           library |-> << >>, delete_ok |-> TRUE] : st \in {"downloading", "fresh"}}
         \cup [status : {"complete", "settled"}, valid : {FALSE}, duration : {None},
               library : {<< >>}, delete_ok : {TRUE}]
         \cup [status : {"settled"}, valid : {TRUE}, duration : FileDurations,
               library : LibraryDurations, delete_ok : {TRUE}]
         \cup [status : {"complete"}, valid : {TRUE}, duration : FileDurations,
               library : LibraryDurations, delete_ok : BOOLEAN]

\* The answer of a run that moved nothing, next to what the run met
\* (file_status: "none" without a file; the probed durations) and what it
\* did (routed: "organized", or the Extras bucket the file went to).
IdleRun(s, scanned, file_status) ==
  [op |-> "reconcile_library", show_id |-> s, file_status |-> file_status,
   scanned |-> scanned, moved |-> 0,
   invalid |-> 0, duration |-> None, library |-> << >>,
   classification |-> "none", routed |-> "none", moves |-> {}, deleted |-> {},
   review |-> << >>, manifest_written |-> FALSE, delete_request |-> None,
   removed_qb_torrents |-> 0]

\* reconcile_library for the show's incoming folder, up to its return.
ReconcileLibrary(s) ==
  /\ s \in DOMAIN shows
  /\ \E env \in ReconcileEnvs(incoming) :
       IF incoming = None
         THEN /\ report' = IdleRun(s, 0, "none")
              /\ UNCHANGED <<incoming, episodes, mfile>>
       ELSE IF ~Eligible(env.status)
         THEN /\ report' = IdleRun(s, 1, env.status)
              /\ UNCHANGED <<incoming, episodes, mfile>>
       ELSE IF ~env.valid
         THEN /\ report' = [IdleRun(s, 1, env.status) EXCEPT
                                !.invalid = 1, !.deleted = {Val(incoming)}]
              /\ incoming' = None
              /\ UNCHANGED <<episodes, mfile>>
       ELSE
         LET f == Val(incoming)
             c == Classify(f, shows[s].total_eps, env.duration,
                           RuntimeBaseline(env.library))
             season == InferSeason(s)
             check == IF c.classification = "episode_confident"
                        THEN CheckMappingConsistency(TitleOf(s), season, Val(f.ep), f.file_md5)
                        ELSE [ok |-> TRUE, reasons |-> << >>]
             organized == Organizes(c.classification, check.ok)
             final == IF c.classification = "episode_confident" /\ ~organized
                        THEN "needs_review" ELSE c.classification
             reasons == c.reasons \cup {check.reasons[i][1] : i \in 1..Len(check.reasons)}
             bucket == IF final = "extra_known" THEN "Known" ELSE "Needs-Review"
             dst == IF organized THEN OrganizedPath(season, Val(f.ep), ".mkv")
                    ELSE ExtrasPath(bucket, f)
             hashes == IF env.status = "complete" THEN {TorrentHash(f)} ELSE {}
         IN /\ report' =
                 [op |-> "reconcile_library", show_id |-> s, file_status |-> env.status,
                  scanned |-> 1, moved |-> 1,
                  invalid |-> 0, duration |-> env.duration, library |-> env.library,
                  classification |-> c.classification,
                  routed |-> IF organized THEN "organized" ELSE bucket,
                  moves |-> {[src |-> f, dst |-> dst]}, deleted |-> {},
                  review |-> IF organized THEN << >>
                             ELSE <<[show_id |-> s, src_path |-> f, dst_path |-> dst,
                                     classification |-> final, reasons |-> reasons]>>,
                  manifest_written |-> organized,
                  delete_request |-> IF hashes = {} THEN None
                                     ELSE Some([torrent_hashes |-> hashes,
                                                delete_files |-> FALSE]),
                  removed_qb_torrents |-> IF hashes # {} /\ env.delete_ok
                                            THEN Cardinality(hashes) ELSE 0]
            /\ incoming' = None
            /\ IF organized
                 THEN /\ mfile' = [mfile EXCEPT ![TitleOf(s)] =
                             JsonDump(RecordedManifest(TitleOf(s), season, Val(f.ep),
                                                       dst, f.file_md5))]
                      /\ episodes' = UpsertDownloaded(episodes, s, Val(f.ep))
                 ELSE UNCHANGED <<mfile, episodes>>
  /\ UNCHANGED <<shows, releases, mcall, sessions, ticks, qbit, jobVars>>

\* The torrent client (or anything else) puts a file into the show's
\* incoming folder.
Arrive(f) ==
  /\ incoming = None
  /\ incoming' = Some(f)
  /\ report' = [op |-> "arrive"]
  /\ UNCHANGED <<shows, episodes, releases, sessions, ticks, qbit, jobVars, manifestVars>>

\* Feed links: a magnet, a bangumi.moe torrent page, a plain .torrent URL.
MagnetLink(n) == <<"magnet:", n>>
PageLink(n) == <<"https://bangumi.moe/torrent/", n>>
TorrentLink == <<"https://", "pack.torrent">>
\* the magnet of a batch pack
BatchLink == <<"magnet:", 0>>

\* resolve_download_link: a magnet is kept; a bangumi.moe page is replaced
\* by the magnet read from it when the page can be fetched (page_up).
ResolveDownloadLink(link, page_up) ==
  IF link[1] = "magnet:" THEN link
  ELSE IF link[1] = "https://bangumi.moe/torrent/" /\ page_up THEN MagnetLink(link[2])
  ELSE link

\* Feed entries as the filter loop sees them: the link, the episode number
\* parsed from the title (None when there is none), the episode range of a
\* batch pack (None when the title has none) and the score of the title.
\* The same torrent can be published as a magnet and as a page.  The title
\* of the batch pack is "... 01-MaxEp [1080p]": extract_episode_no finds
\* its last number.  The page and the pack have the same score, so that
\* the second component of the sort key of ranked decides between them.
Feed ==
  {[link |-> MagnetLink(n), raw_ep |-> Some(n), batch_range |-> None,
    score |-> IF n = 1 THEN 90 ELSE 65] : n \in 1..MaxEp}
  \cup {[link |-> PageLink(1), raw_ep |-> Some(1), batch_range |-> None, score |-> 85],
        [link |-> TorrentLink, raw_ep |-> None, batch_range |-> None, score |-> 75],
        [link |-> BatchLink, raw_ep |-> Some(MaxEp), batch_range |-> Some(<<1, MaxEp>>),
         score |-> 85]}

\* The candidates of one poll, after the de-duplication by link.
CandidateLists ==
  UNION {{q \in [1..n -> Feed] : \A i, j \in 1..n : i # j => q[i].link # q[j].link} :
           n \in 0..MaxCandidates}

RECURSIVE SortedSeq(_)
\* sorted(S) for a set of integers.
SortedSeq(S) ==
  IF S = {} THEN << >>
  ELSE LET lo == CHOOSE x \in S : \A y \in S : x <= y
       IN <<lo>> \o SortedSeq(S \ {lo})

RECURSIVE InsertDesc_Unsorted(_, _)
\* x put at the end, whatever its key.
InsertDesc_Unsorted(q, x) ==
  IF q = << >> THEN <<x>>
  ELSE <<Head(q)>> \o InsertDesc_Unsorted(Tail(q), x)

RECURSIVE InsertDesc(_, _)
\* x put behind every element of q whose key is not smaller.
InsertDesc(q, x) ==
  IF q = << >> THEN <<x>>
  ELSE IF Head(q).key >= x.key THEN <<Head(q)>> \o InsertDesc(Tail(q), x)
  ELSE <<x>> \o q

RECURSIVE SortDesc(_)
\* list.sort(key=..., reverse=True): stable, largest key first.
SortDesc(q) ==
  IF q = << >> THEN << >>
  ELSE InsertDesc(SortDesc(SubSeq(q, 1, Len(q) - 1)), q[Len(q)])

\* parsed_ep of a candidate whose batch range is not looked at.
ParsedEp_RawOnly(c, wanted) == IF Truthy(c.raw_ep) THEN Val(c.raw_ep) ELSE 0

\* parsed_ep of a candidate (0 for None): raw_ep, or for a batch pack whose
\* range overlaps the wanted episodes the first of these.
ParsedEp(c, wanted) ==
  LET overlap == IF c.batch_range # None /\ wanted # {}
                   THEN {ep \in wanted : Val(c.batch_range)[1] <= ep
                                          /\ ep <= Val(c.batch_range)[2]}
                   ELSE {}
  IN IF overlap # {} THEN SortedSeq(overlap)[1]
     ELSE IF Truthy(c.raw_ep) THEN Val(c.raw_ep) ELSE 0

RECURSIVE Scored(_, _, _)
\* The filter-and-score loop over the candidates: the entries of ranked, in
\* candidate order (the show's ep_offset is 0, the default).
Scored(cands, wanted, downloaded) ==
  IF cands = << >> THEN << >>
  ELSE LET c == Head(cands)
           parsed_ep == ParsedEp(c, wanted)
           s == IF parsed_ep \in downloaded THEN c.score - 30 ELSE c.score
           rest == Scored(Tail(cands), wanted, downloaded)
       IN IF parsed_ep # 0 /\ wanted # {} /\ parsed_ep \notin wanted
            THEN rest
            ELSE <<[s |-> s, ep |-> parsed_ep, cand |-> c]>> \o rest

\* A list with its sort key attached.
Keyed(q, byEp) ==
  [i \in 1..Len(q) |->
     [key |-> IF byEp THEN q[i].s * (MaxEp + 1) + q[i].ep ELSE q[i].s,
      s |-> q[i].s, ep |-> q[i].ep, cand |-> q[i].cand]]

\* max_enqueue_attempts
MaxEnqueueAttempts == Max(6, max_add_per_show_per_cycle * 4)

\* The per-show time budget is used up once the loops have checked the
\* clock env.budget times; Unlimited: it is never used up.
Unlimited == -1
TimeUp(run, env) == env.budget # Unlimited /\ run.checks >= env.budget

\* _try_enqueue that does not look at seen_eps.
TryEnqueue_NoSeen(run, s, ep_no, cand, env) ==
  IF run.attempts >= MaxEnqueueAttempts THEN [run |-> run, ok |-> FALSE]
  ELSE LET tried == [run EXCEPT !.attempts = @ + 1]
           existing == \E r \in RowsOf(run.releases, s) :
                         r.ep_no = ep_no /\ r.magnet_or_torrent = cand.link
           final_link == ResolveDownloadLink(cand.link, env.page_up)
           called == [tried EXCEPT !.calls = @ + 1]
       IN IF existing THEN [run |-> tried, ok |-> FALSE]
          ELSE IF tried.attempts \in env.fails THEN [run |-> called, ok |-> FALSE]
            ELSE [run |-> [called EXCEPT
                     !.releases = @ (+) One(ReleaseRow(s, ep_no, final_link)),
                     !.episodes = IF FirstEpisode(run.episodes, s, ep_no) = None
                                    THEN @ (+) One(EpisodeRow(s, ep_no, "aired")) ELSE @,
                     !.added = @ + 1,
                     !.seen = @ \cup {ep_no}],
                  ok |-> TRUE]

\* _try_enqueue that adds the Release row before it calls add_magnet, and
\* leaves it when the call raises.
TryEnqueue_RowOnFailure(run, s, ep_no, cand, env) ==
  IF ep_no \in run.seen THEN [run |-> run, ok |-> FALSE]
  ELSE LET t == TryEnqueue_NoSeen(run, s, ep_no, cand, env)
       IN IF t.ok \/ t.run.calls = run.calls THEN t
          ELSE [run |-> [t.run EXCEPT
                           !.releases = @ (+) One(ReleaseRow(s, ep_no, cand.link))],
                ok |-> FALSE]

\* _try_enqueue: add_magnet raises on the attempts listed in env.fails;
\* calls counts the calls of add_magnet.
TryEnqueue(run, s, ep_no, cand, env) ==
  IF ep_no \in run.seen THEN [run |-> run, ok |-> FALSE]
  ELSE IF run.attempts >= MaxEnqueueAttempts THEN [run |-> run, ok |-> FALSE]
  ELSE LET tried == [run EXCEPT !.attempts = @ + 1]
           existing == \E r \in RowsOf(run.releases, s) :
                         r.ep_no = ep_no /\ r.magnet_or_torrent = cand.link
           final_link == ResolveDownloadLink(cand.link, env.page_up)
           called == [tried EXCEPT !.calls = @ + 1]
       IN IF existing THEN [run |-> tried, ok |-> FALSE]
          ELSE IF tried.attempts \in env.fails THEN [run |-> called, ok |-> FALSE]
            ELSE [run |-> [called EXCEPT
                     !.releases = @ (+) One(ReleaseRow(s, ep_no, final_link)),
                     !.episodes = IF FirstEpisode(run.episodes, s, ep_no) = None
                                    THEN @ (+) One(EpisodeRow(s, ep_no, "aired")) ELSE @,
                     !.added = @ + 1,
                     !.seen = @ \cup {ep_no}],
                  ok |-> TRUE]

\* The run after _try_enqueue(ep_no, s, cand) for an entry of ranked, with
\* the call of add_magnet, if one was made, written to the log: the pass
\* that made it, the entry's s and parsed_ep, the ep_no it was made for and
\* whether the client took the link.
Logged(run, t, item, ep_no) ==
  [run |-> IF t.run.calls = run.calls THEN t.run
           ELSE [t.run EXCEPT !.log = Append(@, [pass |-> run.pass, score |-> item.s,
                                                 key_ep |-> item.ep, ep_no |-> ep_no,
                                                 ok |-> t.ok])],
   ok |-> t.ok]

RECURSIVE TryBest(_, _, _, _, _, _)
\* Pass 1, inner loop: the candidates of one target episode, best first,
\* until one is enqueued.
TryBest(run, s, target_ep, list, min_score, env) ==
  IF list = << >> THEN run
  ELSE IF Head(list).s < min_score
    THEN TryBest(run, s, target_ep, Tail(list), min_score, env)
  ELSE LET t == Logged(run, TryEnqueue(run, s, target_ep, Head(list).cand, env),
                      Head(list), target_ep)
       IN IF t.ok THEN t.run
          ELSE TryBest(t.run, s, target_ep, Tail(list), min_score, env)

RECURSIVE Pass1(_, _, _, _, _, _, _)
\* Pass 1: the wanted episodes, earliest first.
Pass1(run, s, targets, ranked, eps_with_release, min_score, env) ==
  IF targets = << >> THEN run
  ELSE IF run.added >= max_add_per_show_per_cycle THEN run
  ELSE IF run.attempts >= MaxEnqueueAttempts THEN run
  ELSE IF TimeUp(run, env) THEN run
  ELSE LET checked == [run EXCEPT !.checks = @ + 1]
           target_ep == Head(targets)
           by_ep == SortDesc(Keyed(SelectSeq(ranked, LAMBDA r : r.ep = target_ep), FALSE))
           next == IF target_ep \in eps_with_release THEN checked
                   ELSE TryBest(checked, s, target_ep, Take(by_ep, 2), min_score, env)
       IN Pass1(next, s, Tail(targets), ranked, eps_with_release, min_score, env)

RECURSIVE Pass2_NoCap(_, _, _, _, _, _)
\* Pass 2 without the test of per_show_added.
Pass2_NoCap(run, s, list, fallback_ep, min_score, env) ==
  IF list = << >> THEN run
  ELSE IF run.attempts >= MaxEnqueueAttempts THEN run
  ELSE IF TimeUp(run, env) THEN run
  ELSE LET checked == [run EXCEPT !.checks = @ + 1]
           ep_no == IF Head(list).ep # 0 THEN Head(list).ep ELSE fallback_ep
           next == IF Head(list).s < min_score THEN checked
                   ELSE Logged(checked, TryEnqueue(checked, s, ep_no, Head(list).cand, env),
                               Head(list), ep_no).run
       IN Pass2_NoCap(next, s, Tail(list), fallback_ep, min_score, env)

RECURSIVE Pass2(_, _, _, _, _, _)
\* Pass 2: every ranked candidate, best first.
Pass2(run, s, list, fallback_ep, min_score, env) ==
  IF list = << >> THEN run
  ELSE IF run.added >= max_add_per_show_per_cycle THEN run
  ELSE IF run.attempts >= MaxEnqueueAttempts THEN run
  ELSE IF TimeUp(run, env) THEN run
  ELSE LET checked == [run EXCEPT !.checks = @ + 1]
           ep_no == IF Head(list).ep # 0 THEN Head(list).ep ELSE fallback_ep
           next == IF Head(list).s < min_score THEN checked
                   ELSE Logged(checked, TryEnqueue(checked, s, ep_no, Head(list).cand, env),
                               Head(list), ep_no).run
       IN Pass2(next, s, Tail(list), fallback_ep, min_score, env)

\* min_score of a show: profile is the min_score of the show's ShowProfile
\* row, None when the show has no such row.
EffectiveMinScore(profile, first_sync, wanted_count) ==
  LET base_min_score == IF profile # None THEN Val(profile) ELSE 70
      min_score == IF first_sync THEN Max(55, base_min_score - 10) ELSE base_min_score
  IN IF wanted_count >= 5 THEN Max(45, min_score - 10) ELSE min_score

\* A poll that never skips a show.
SkipShow_Never(total_eps, downloaded, wanted) == FALSE

\* `if is_complete and not wanted_eps: continue`
SkipShow(total_eps, downloaded, wanted) ==
  /\ Truthy(total_eps) /\ Cardinality(downloaded) >= Val(total_eps)
  /\ wanted = {}

\* One iteration of poll_and_enqueue on the tables given: the run state when
\* the iteration commits.  skipped: the show is complete and wants nothing.
\* checks counts the iterations of the two loops that got past the three
\* break tests, iterations is the length of the two lists.
\* rss_fetches, api_fetches: the calls of fetch_candidates and of
\* fetch_bangumi_api_candidates; the latter is left out when the RSS fetch
\* has used up the time budget (env.budget = 0).
PollRun(show_rows, release_rows, s, total_eps, cands, env) ==
  LET eps == RowsOf(show_rows, s)
      downloaded == {r.ep_no : r \in {x \in eps : x.state = "downloaded"}}
      next_ep == IF downloaded = {} THEN 1
                 ELSE 1 + CHOOSE n \in downloaded : \A k \in downloaded : k <= n
      first_sync == downloaded = {}
      backlog == {r.ep_no : r \in {x \in eps : x.state \in {"aired", "missing"}}}
                   \ downloaded
      wanted == IF backlog = {} /\ first_sync /\ Truthy(total_eps)
                  THEN 1..Val(total_eps) \ downloaded ELSE backlog
      wanted_eps == SortedSeq(wanted)
      min_score == EffectiveMinScore(None, first_sync, Len(wanted_eps))
      scored == Scored(cands, wanted, downloaded)
      ranked == SortDesc(Keyed(scored, TRUE))
      eps_with_release == {r.ep_no : r \in RowsOf(release_rows, s)}
      start == [releases |-> release_rows, episodes |-> show_rows, added |-> 0,
                attempts |-> 0, checks |-> 0, calls |-> 0, log |-> << >>, pass |-> 1,
                min_score |-> min_score, first_sync |-> first_sync,
                wanted_count |-> Len(wanted_eps),
                iterations |-> Len(wanted_eps) + Len(ranked),
                rss_fetches |-> 0, api_fetches |-> 0,
                seen |-> downloaded \cup eps_with_release, skipped |-> FALSE]
      fetched == [start EXCEPT !.rss_fetches = 1,
                               !.api_fetches = IF env.budget = 0 THEN 0 ELSE 1]
      fallback_ep == IF wanted_eps # << >> THEN wanted_eps[1] ELSE next_ep
      after1 == Pass1(fetched, s, wanted_eps, scored, eps_with_release, min_score, env)
  IN IF SkipShow(total_eps, downloaded, wanted) THEN [start EXCEPT !.skipped = TRUE]
     ELSE Pass2([after1 EXCEPT !.pass = 2], s, ranked, fallback_ep, min_score, env)

\* The most attempts a poll of these candidates can make: every add_magnet
\* raises and the time budget is never used up.
AttemptsAtMost(s, cands) ==
  PollRun(episodes, releases, s, shows[s].total_eps, cands,
          [fails |-> 1..MaxEnqueueAttempts, page_up |-> FALSE, budget |-> Unlimited]).attempts

\* The calls of add_magnet that raise in one run, by attempt number: none,
\* a single one, or all of them (the client is down).
FailPatterns(most) == {{}} \cup {{i} : i \in 1..most} \cup {1..most}

\* One iteration of poll_and_enqueue, up to its commit.  The surroundings
\* of the run: the attempts on which add_magnet raises, whether the
\* bangumi.moe pages can be fetched, and when the time budget is used up.
PollAndEnqueue(s, cands) ==
  /\ s \in DOMAIN shows
  /\ LET most == AttemptsAtMost(s, cands)
         pages == \E i \in 1..Len(cands) : cands[i].link[1] = "https://bangumi.moe/torrent/"
     IN \E budget \in {0, 1, Unlimited} :
        \E page_up \in (IF pages /\ budget # 0 THEN BOOLEAN ELSE {FALSE}),
           fails \in FailPatterns(IF budget = 0 THEN 0 ELSE most) :
          LET env == [fails |-> fails, page_up |-> page_up, budget |-> budget]
              run == PollRun(episodes, releases, s, shows[s].total_eps, cands, env)
          IN /\ episodes' = run.episodes
             /\ releases' = run.releases
             /\ report' = [op |-> "poll", show_id |-> s, added |-> run.added,
                           skipped |-> run.skipped,
                           rss_fetches |-> run.rss_fetches,
                           api_fetches |-> run.api_fetches,
                           client_calls |-> run.calls,
                           attempts |-> run.attempts,
                           min_score |-> run.min_score,
                           first_sync |-> run.first_sync,
                           wanted_count |-> run.wanted_count,
                           exhausted |-> run.checks = run.iterations,
                           timed_out |-> TimeUp(run, env),
                           log |-> run.log]
  /\ UNCHANGED <<shows, incoming, sessions, ticks, jobVars, manifestVars>>

\* The iteration where the torrents of the client are not followed.
PollShow(s, cands) == PollAndEnqueue(s, cands) /\ UNCHANGED qbit

\* cleanup_stalled, the release rows: gone are the links of the rows whose
\* torrent was removed in this run or that are stale and unknown to the
\* client; then the rows of downloaded episodes go.
CleanupStalled(gone) ==
  /\ gone \subseteq {r.magnet_or_torrent : r \in BagToSet(releases)}
  /\ LET downloaded_eps == {<<e.show_id, e.ep_no>> :
                              e \in {x \in BagToSet(episodes) : x.state = "downloaded"}}
         keep == {r \in BagToSet(releases) :
                    /\ r.magnet_or_torrent \notin gone
                    /\ <<r.show_id, r.ep_no>> \notin downloaded_eps}
     IN /\ releases' = [r \in keep |-> releases[r]]
        /\ report' = [op |-> "cleanup_stalled",
                      removed |-> BagCardinality(releases) - Cardinality(keep)]
  /\ UNCHANGED <<shows, episodes, incoming, sessions, ticks, qbit, jobVars, manifestVars>>

\* show_status: the body of the answer of GET /shows/{show_id}/status, from
\* the show row and the episode rows of the show (the ByLatest variant
\* judges completeness by the highest downloaded episode).
DownloadedEps(table, s) ==
  {r.ep_no : r \in {x \in RowsOf(table, s) : x.state = "downloaded"}}

SetMax(S) == CHOOSE m \in S : \A x \in S : x <= m

ShowStatusBody_ByLatest(show, table, s) ==
  LET downloaded_eps == DownloadedEps(table, s)
      downloaded_count == Cardinality(downloaded_eps)
      latest == IF downloaded_eps # {} THEN Some(SetMax(downloaded_eps)) ELSE None
      total_eps == show.total_eps
  IN [latest_downloaded_ep |-> latest,
      downloaded_count |-> downloaded_count,
      total_eps |-> total_eps,
      missing_count |-> IF Truthy(total_eps)
                          THEN Some(Max(Val(total_eps) - downloaded_count, 0))
                          ELSE None,
      complete |-> Truthy(total_eps) /\ latest # None
                     /\ Val(latest) >= Val(total_eps)]

ShowStatusBody(show, table, s) ==
  LET downloaded_eps == DownloadedEps(table, s)
      downloaded_count == Cardinality(downloaded_eps)
      latest == IF downloaded_eps # {} THEN Some(SetMax(downloaded_eps)) ELSE None
      total_eps == show.total_eps
  IN [latest_downloaded_ep |-> latest,
      downloaded_count |-> downloaded_count,
      total_eps |-> total_eps,
      missing_count |-> IF Truthy(total_eps)
                          THEN Some(Max(Val(total_eps) - downloaded_count, 0))
                          ELSE None,
      complete |-> Truthy(total_eps) /\ downloaded_count >= Val(total_eps)]

\* GET /shows/{show_id}/status (404 when the show does not exist).
ShowStatus(s) ==
  /\ report' = IF s \in DOMAIN shows
                 THEN [op |-> "show_status", show_id |-> s, code |-> 200,
                       body |-> ShowStatusBody(shows[s], episodes, s)]
                 ELSE [op |-> "show_status", show_id |-> s, code |-> 404]
  /\ UNCHANGED <<shows, episodes, releases, incoming, sessions, ticks, qbit, jobVars, manifestVars>>

---------------------------------------------------------------------------
(***************************************************************************)
(* Concurrent database sessions.                                           *)
(*                                                                         *)
(* The routes run on the thread pool of the web server, the jobs on the    *)
(* threads of the job runner and of the scheduler, each with a Session of  *)
(* its own on the same database.  A session reads what the others have     *)
(* committed, and the others run between its select and its commit.  A     *)
(* step is what a session does up to its select, or from there to its      *)
(* commit.  The jobs are followed on one Episode row: the statements of    *)
(* _sync_episode_rows, _try_enqueue and reconcile_library that read and    *)
(* write the row (show, ep_no).                                            *)
(***************************************************************************)
Requests == {"request 1", "request 2"}
Workers == {"resolver", "pipeline", "reconciler"}
IdleSession == [at |-> "idle"]

\* select(Show).where(Show.title_canonical == canonical).first(): the show
\* of the title with its columns as loaded, None when there is none.  Every
\* request is for the one title of the model.
FirstShow ==
  IF DOMAIN shows = {} THEN None
  ELSE LET s == CHOOSE x \in DOMAIN shows : \A y \in DOMAIN shows : x <= y
       IN Some([id |-> s, total_eps |-> shows[s].total_eps])

\* POST /shows or POST /intake up to the answer of its select.
SelectShow(q, route, total_eps) ==
  /\ sessions[q] = IdleSession
  /\ sessions' = [sessions EXCEPT ![q] =
       [at |-> "selected", route |-> route, total_eps |-> total_eps,
        existing |-> FirstShow]]
  /\ UNCHANGED <<shows, episodes, releases, report, incoming, ticks, qbit, jobVars, manifestVars>>

\* POST /shows or POST /intake from the answer of its select to its return:
\* the show is inserted under the next id when the select found none; else
\* POST /shows answers dedup, and POST /intake fills in a missing total_eps.
WriteShow(q) ==
  /\ q \in Requests
  /\ sessions[q] # IdleSession
  /\ LET c == sessions[q]
     IN IF c.existing = None
          THEN shows' = shows @@
                 ((Cardinality(DOMAIN shows) + 1) :>
                    [bangumi_id |-> None, status |-> "airing",
                     total_eps |-> c.total_eps])
        ELSE IF /\ c.route = "intake"
                /\ Truthy(c.total_eps)
                /\ ~Truthy(Val(c.existing).total_eps)
          THEN shows' = [shows EXCEPT ![Val(c.existing).id].total_eps = c.total_eps]
        ELSE UNCHANGED shows
  /\ sessions' = [sessions EXCEPT ![q] = IdleSession]
  /\ UNCHANGED <<episodes, releases, report, incoming, ticks, qbit, jobVars, manifestVars>>

\* The state a job gives to the row it writes: the resolver the desired state
\* of the episode, the pipeline aired, the reconciler downloaded.
StatesWritten(w) ==
  CASE w = "resolver" -> {"aired", "planned"}
    [] w = "pipeline" -> {"aired"}
    [] w = "reconciler" -> {"downloaded"}

\* A job up to the answer of its select for the Episode row (s, n).
SelectEpisode(w, s, n, desired) ==
  /\ s \in DOMAIN shows
  /\ sessions[w] = IdleSession
  /\ sessions' = [sessions EXCEPT ![w] =
       [at |-> "selected", show_id |-> s, ep_no |-> n, desired |-> desired,
        row |-> FirstEpisode(episodes, s, n)]]
  /\ UNCHANGED <<shows, episodes, releases, report, incoming, ticks, qbit, jobVars, manifestVars>>

\* The row an UPDATE by primary key reaches: the row as it was loaded, or as
\* another session has left it since; None when it is gone.
Reloaded(table, row) ==
  IF row \in BagToSet(table) THEN Some(row)
  ELSE FirstEpisode(table, row.show_id, row.ep_no)

\* A job from the answer of its select to its commit: `if not row` adds the
\* row; else the resolver updates a row it did not load as downloaded, the
\* reconciler marks the row downloaded and the pipeline leaves it.
WriteEpisode(w) ==
  /\ w \in Workers
  /\ sessions[w] # IdleSession
  /\ LET c == sessions[w]
         target == IF c.row = None THEN None ELSE Reloaded(episodes, Val(c.row))
     IN episodes' =
          IF c.row = None
            THEN episodes (+) One(EpisodeRow(c.show_id, c.ep_no, c.desired))
          ELSE IF \/ w = "pipeline"
                  \/ w = "resolver" /\ Val(c.row).state = "downloaded"
                  \/ target = None
            THEN episodes
          ELSE SetState(episodes, Val(target), c.desired)
  /\ sessions' = [sessions EXCEPT ![w] = IdleSession]
  /\ UNCHANGED <<shows, releases, report, incoming, ticks, qbit, jobVars, manifestVars>>

\* Two invocations of poll_and_enqueue that cover the same show, each in a
\* job and a session of its own: the poll_show job runs on a thread of the
\* job runner, recovery_job on a thread of the scheduler.
Invocations == {"poll_show job", "recovery job"}

\* An invocation up to the last select of its iteration for the show: what
\* it has read of the Episode and Release rows.  The rows another session
\* adds are not visible to it before that session commits.
PipelineRead(i, s, cands) ==
  /\ s \in DOMAIN shows
  /\ sessions[i] = IdleSession
  /\ sessions' = [sessions EXCEPT ![i] =
       [at |-> "read", show_id |-> s, cands |-> cands,
        episodes |-> episodes, releases |-> releases]]
  /\ UNCHANGED <<shows, episodes, releases, report, incoming, ticks, qbit, jobVars, manifestVars>>

\* _extract_info_hash: the hash of a magnet, None for another link.
ExtractInfoHash(magnet) == IF magnet[1] = "magnet:" THEN Some(magnet[2]) ELSE None

\* The torrents the client holds: those the invocations that returned added.
ClientLinks ==
  UNION {{a[2] : a \in sessions[i].added} :
           i \in {x \in Invocations : sessions[x].at = "returned"}}

\* The rest of the iteration: the two passes on what was read, with their
\* calls of add_magnet, and the commit of the rows they added.  added: the
\* episode and the link of the calls of add_magnet that reached torrents_add;
\* add_magnet answers "exists" without it for a magnet the client holds.
PipelineCommit(i) ==
  /\ i \in Invocations
  /\ sessions[i] # IdleSession
  /\ sessions[i].at = "read"
  /\ LET c == sessions[i]
     IN \E page_up \in BOOLEAN, fails \in {{}, {1}} :
          LET run == PollRun(c.episodes, c.releases, c.show_id,
                             shows[c.show_id].total_eps, c.cands,
                             [fails |-> fails, page_up |-> page_up,
                              budget |-> Unlimited])
          IN /\ episodes' = episodes (+) (run.episodes (-) c.episodes)
             /\ releases' = releases (+) (run.releases (-) c.releases)
             /\ sessions' = [sessions EXCEPT ![i] =
                  [at |-> "returned",
                   added |-> {<<r.ep_no, r.magnet_or_torrent>> :
                                r \in {x \in BagToSet(run.releases (-) c.releases) :
                                         ~(/\ Truthy(ExtractInfoHash(x.magnet_or_torrent))
                                           /\ x.magnet_or_torrent \in ClientLinks)}}]]
  /\ UNCHANGED <<shows, report, incoming, ticks, qbit, jobVars, manifestVars>>

\* The two invocations, interleaved.
PipelinesNext ==
  \/ \E s \in ShowIds, total \in TotalEpsValues : AddShow(s, total)
  \/ \E i \in Invocations, s \in ShowIds, cands \in CandidateLists :
       PipelineRead(i, s, cands)
  \/ \E i \in Invocations : PipelineCommit(i)

\* Two requests for the same title, interleaved.
RequestNext ==
  \/ \E q \in Requests, route \in {"add_show", "intake"}, total \in TotalEpsValues :
       SelectShow(q, route, total)
  \/ \E q \in Requests : WriteShow(q)

\* The three jobs at work on the rows of one show, interleaved.
SessionNext ==
  \/ \E s \in ShowIds : AddShow(s, None)
  \/ \E w \in Workers, s \in ShowIds, n \in 1..MaxEp :
       \E desired \in StatesWritten(w) : SelectEpisode(w, s, n, desired)
  \/ \E w \in Workers : WriteEpisode(w)

StoreInit ==
  /\ shows = << >>
  /\ episodes = EmptyBag
  /\ releases = EmptyBag
  /\ report = [op |-> "none"]
  /\ incoming = None
  /\ sessions = [w \in Requests \cup Workers \cup Invocations |-> IdleSession]

\* The caller takes the answer of the run; the next run starts after that.
Return ==
  /\ report.op # "none"
  /\ report' = [op |-> "none"]
  /\ UNCHANGED <<shows, episodes, releases, incoming, sessions, ticks, qbit, jobVars, manifestVars>>

\* No answer is pending.
Ready == report.op = "none"

Next ==
  \/ Ready /\ \E s \in ShowIds, total \in TotalEpsValues : AddShow(s, total)
  \/ Ready /\ \E s \in ShowIds, total \in TotalEpsValues : Intake(s, total)
  \/ Ready /\ \E s \in ShowIds : ShowStatus(s)
  \/ Ready /\ \E s \in ShowIds : SyncShow(s)
  \/ Ready /\ \E s \in ShowIds, ep \in 1..MaxEp, md5 \in Hashes, confident \in BOOLEAN :
       ReconcileFile(s, 1, ep, ".mkv", md5, confident)
  \/ Ready /\ \E s \in ShowIds, cands \in CandidateLists : PollShow(s, cands)
  \/ Ready /\ \E gone \in SUBSET {c.link : c \in Feed} :
       CleanupStalled(gone)
  \/ Return

\* The reconciler at work on the folder of a show whose rows the resolver
\* keeps in step with the catalog.
ReconcileNext ==
  \/ Ready /\ \E s \in ShowIds, total \in TotalEpsValues : AddShow(s, total)
  \/ Ready /\ \E s \in ShowIds : SyncShow(s)
  \/ Ready /\ \E f \in IncomingFiles : Arrive(f)
  \/ Ready /\ \E s \in ShowIds : ReconcileLibrary(s)
  \/ Return

---------------------------------------------------------------------------
(***************************************************************************)
(* Scheduler.                                                              *)
(*                                                                         *)
(* start_scheduler registers the timers with add_job and its defaults, so  *)
(* a timer runs one invocation of its function at a time: the next one     *)
(* starts only when the last has returned.  An invocation is "working"     *)
(* while its function is inside the service call it makes itself.          *)
(***************************************************************************)
Timers ==
  {"poll_show", "reconcile_library", "qbit_maintenance", "poster_job",
   "metadata_sync", "recovery_job"}

\* timeout_sec = 80 of poll_single_show_job, on the scale of the model.
PollShowTimeout == Some(MaxTimeout)

\* poll_single_show_job: the run is handed to job_runner.submit and the
\* function returns.
PollSingleShowJob ==
  /\ ticks["poll_show"] = "idle"
  /\ Submit("j1", PollShowTimeout)

\* reconcile_job, qbit_maintenance_job, poster_job, metadata_sync_job and
\* recovery_job up to the call they make: reconcile_library, cleanup_stalled,
\* subprocess.run, sync_authentic_anime_info, and the three services in a row.
CallService(t) ==
  /\ t # "poll_show"
  /\ ticks[t] = "idle"
  /\ ticks' = [ticks EXCEPT ![t] = "working"]
  /\ UNCHANGED <<jobVars, manifestVars, storeVars>>

\* The call has come back and the function returns.
ServiceReturns(t) ==
  /\ ticks[t] = "working"
  /\ ticks' = [ticks EXCEPT ![t] = "idle"]
  /\ UNCHANGED <<jobVars, manifestVars, storeVars>>

SchedulerInit == ticks = [t \in Timers |-> "idle"]

\* The timers fire, and the worker thread of the submitted job runs.
SchedulerNext ==
  \/ PollSingleShowJob
  \/ \E t \in Timers : CallService(t)
  \/ \E t \in Timers : ServiceReturns(t)
  \/ \E j \in JobIds : WCheckCancelled(j)
  \/ \E j \in JobIds : WSetRunning(j)
  \/ \E j \in JobIds, ok \in BOOLEAN : WFinish(j, ok)

---------------------------------------------------------------------------
(***************************************************************************)
(* A run of reconcile_library over a folder of several files, file by      *)
(* file.  The rows the run writes stay in its session until the            *)
(* session.commit() that follows the loops; the files it moves and the     *)
(* manifest it saves are on disk at once.  shutil.move (in organize_file   *)
(* and in _move_to_extras_bucket) raises OSError when the move fails, and  *)
(* no statement of reconcile_library or of its callers catches it: the     *)
(* `with Session(engine)` of the job closes the session on the way out.    *)
(***************************************************************************)
MaxFiles == 2

\* Ready, valid files without an extra keyword and with an explicit episode
\* in their name; the probe of their duration fails.
FolderFiles ==
  {f \in IncomingFiles : ~f.has_extra_keyword /\ f.explicit_episode_signal /\ f.ep # None}

Folders == UNION {[1..n -> FolderFiles] : n \in 1..MaxFiles}

ReconcileStart(s, files) ==
  /\ s \in DOMAIN shows
  /\ sessions["reconciler"] = IdleSession
  /\ sessions' = [sessions EXCEPT !["reconciler"] =
                    [at |-> "files", show_id |-> s, todo |-> files, table |-> episodes,
                     moved |-> 0]]
  /\ report' = [op |-> "none"]
  /\ UNCHANGED <<shows, episodes, releases, incoming, ticks, qbit, jobVars, manifestVars>>

\* One iteration of the file loop; move_ok: shutil.move succeeds.
ReconcileNextFile(move_ok) ==
  LET run == sessions["reconciler"] IN
  /\ run.at = "files"
  /\ run.todo # << >>
  /\ LET s == run.show_id
         f == Head(run.todo)
         c == Classify(f, shows[s].total_eps, None, None)
         season == InferSeason(s)
         check == IF c.classification = "episode_confident"
                    THEN CheckMappingConsistency(TitleOf(s), season, Val(f.ep), f.file_md5)
                    ELSE [ok |-> TRUE, reasons |-> << >>]
         organized == Organizes(c.classification, check.ok)
     IN IF ~move_ok
          THEN /\ sessions' = [sessions EXCEPT !["reconciler"] = IdleSession]
               /\ report' = [op |-> "reconcile_run", raised |-> TRUE,
                             moved |-> run.moved, left |-> Len(run.todo)]
               /\ UNCHANGED <<episodes, mfile>>
          ELSE /\ sessions' = [sessions EXCEPT !["reconciler"] =
                                 [run EXCEPT
                                    !.todo = Tail(@),
                                    !.moved = @ + 1,
                                    !.table = IF organized
                                                THEN UpsertDownloaded(@, s, Val(f.ep))
                                                ELSE @]]
               /\ mfile' = IF organized
                             THEN [mfile EXCEPT ![TitleOf(s)] =
                                     JsonDump(RecordedManifest(
                                       TitleOf(s), season, Val(f.ep),
                                       OrganizedPath(season, Val(f.ep), ".mkv"),
                                       f.file_md5))]
                             ELSE mfile
               /\ UNCHANGED <<episodes, report>>
  /\ UNCHANGED <<shows, releases, incoming, mcall, ticks, qbit, jobVars>>

\* session.commit() after the loops, and the return.
ReconcileCommit ==
  LET run == sessions["reconciler"] IN
  /\ run.at = "files"
  /\ run.todo = << >>
  /\ episodes' = run.table
  /\ sessions' = [sessions EXCEPT !["reconciler"] = IdleSession]
  /\ report' = [op |-> "reconcile_run", raised |-> FALSE, moved |-> run.moved, left |-> 0]
  /\ UNCHANGED <<shows, releases, incoming, ticks, qbit, jobVars, manifestVars>>

ReconcileRunNext ==
  \/ \E s \in ShowIds, total \in TotalEpsValues :
       sessions["reconciler"] = IdleSession /\ AddShow(s, total)
  \/ \E s \in ShowIds, files \in Folders : ReconcileStart(s, files)
  \/ \E move_ok \in BOOLEAN : ReconcileNextFile(move_ok)
  \/ ReconcileCommit

---------------------------------------------------------------------------
(***************************************************************************)
(* cleanup_stalled (qbit_maintenance.py), torrent by torrent and row by    *)
(* row.  The info-hash of the magnet of episode n is n.  Times are in      *)
(* minutes; max_age_minutes is 20, the value the scheduler passes.         *)
(***************************************************************************)
max_age_minutes == 20

\* save_path of a torrent: the show's folder under qbit_save_root, a folder
\* below it, or a folder of something else.
ShowSavePath(s) == <<TitleOf(s)>>
SavePaths == {ShowSavePath(s) : s \in ShowIds}
               \cup {ShowSavePath(s) \o <<"Season 1">> : s \in ShowIds}
               \cup {<<"Other">>}

\* The torrents torrents_info can report, by the attributes the loop reads;
\* progress in percent; content_gone: content_path does not exist, or
\* save_path holds no video file.
ClientTorrents ==
  [hash : 1..MaxEp,
   state : {"downloading", "stalledDL", "pausedDL", "uploading", "missingFiles", "error"},
   save_path : SavePaths, progress : {0, 100}, age : {0, 20, 90},
   content_gone : BOOLEAN]

\* save_path_norm == p or save_path_norm.startswith(p + "/")
IsUnder(path, p) == Len(path) >= Len(p) /\ SubSeq(path, 1, Len(p)) = p

\* complete_show_save_paths
CompleteShowSavePaths ==
  {ShowSavePath(s) : s \in {x \in DOMAIN shows :
      /\ Truthy(shows[x].total_eps)
      /\ BagCardinality([r \in {e \in RowsOf(episodes, x) : e.state = "downloaded"}
                            |-> episodes[r]]) >= Val(shows[x].total_eps)}}

\* The torrent loop: t.hash goes to remove_hashes.
TorrentRemoved(t, complete_show_save_paths) ==
  IF /\ t.state \in {"queuedDL", "downloading", "stalledDL", "metaDL", "forcedDL"}
     /\ \E p \in complete_show_save_paths : IsUnder(t.save_path, p)
    THEN TRUE
  ELSE IF t.state = "missingFiles" THEN TRUE
  ELSE IF t.progress >= 100 /\ t.state \in {"stalledUP", "uploading", "queuedUP"}
    THEN t.content_gone
  ELSE IF t.state \in {"error", "stalledDL", "metaDL"} /\ t.age >= max_age_minutes
    THEN TRUE
  ELSE t.state \in {"queuedDL", "downloading"} /\ t.progress < 2 /\ t.age >= 90

\* _extract_btih of a link: the hash of a magnet, None for a URL.
ExtractBtih(link) == IF link[1] = "magnet:" THEN Some(link[2]) ELSE None

\* The three pruning loops without the third.
PrunedReleases_NoDedup(table, removed_set, active_hashes, old, untitled, downloaded_eps) ==
  LET hit(r) == \E h \in removed_set : ExtractBtih(r.magnet_or_torrent) = Some(h)
      stale(r) ==
        /\ r \in old
        /\ IF ExtractBtih(r.magnet_or_torrent) # None
             THEN Val(ExtractBtih(r.magnet_or_torrent)) \notin active_hashes
             ELSE r \in untitled
      keep == {r \in BagToSet(table) : ~hit(r) /\ ~stale(r)}
  IN [r \in keep |-> table[r]]

\* The pruning without its second loop.
PrunedReleases_NoStale(table, removed_set, active_hashes, old, untitled, downloaded_eps) ==
  LET hit(r) == \E h \in removed_set : ExtractBtih(r.magnet_or_torrent) = Some(h)
      keep == {r \in BagToSet(table) :
                 /\ ~hit(r)
                 /\ <<r.show_id, r.ep_no>> \notin downloaded_eps}
  IN [r \in keep |-> table[r]]

\* The Release rows left by the three pruning loops.  old: the rows created
\* more than 2 * max_age_minutes ago; untitled: the rows whose title is
\* empty or matches the name of no torrent of the client.
PrunedReleases(table, removed_set, active_hashes, old, untitled, downloaded_eps) ==
  LET hit(r) == \E h \in removed_set : ExtractBtih(r.magnet_or_torrent) = Some(h)
      stale(r) ==
        /\ r \in old
        /\ IF ExtractBtih(r.magnet_or_torrent) # None
             THEN Val(ExtractBtih(r.magnet_or_torrent)) \notin active_hashes
             ELSE r \in untitled
      keep == {r \in BagToSet(table) :
                 /\ ~hit(r) /\ ~stale(r)
                 /\ <<r.show_id, r.ep_no>> \notin downloaded_eps}
  IN [r \in keep |-> table[r]]

\* One run of cleanup_stalled, up to its return: the Release rows.
CleanupStalledRows(infos, old, untitled) ==
  LET remove_hashes == {t.hash : t \in {x \in infos :
                                           TorrentRemoved(x, CompleteShowSavePaths)}}
      active_hashes == {t.hash : t \in infos}
      downloaded_eps == {<<e.show_id, e.ep_no>> :
                           e \in {x \in BagToSet(episodes) : x.state = "downloaded"}}
  IN /\ old \subseteq BagToSet(releases)
     /\ untitled \subseteq BagToSet(releases)
     /\ releases' = PrunedReleases(releases, remove_hashes, active_hashes, old, untitled,
                                   downloaded_eps)
     /\ report' = [op |-> "cleanup_stalled", infos |-> infos,
                   remove_hashes |-> remove_hashes, old |-> old,
                   pruned |-> BagCardinality(releases) - BagCardinality(releases')]
     /\ UNCHANGED <<shows, episodes, incoming, sessions, ticks, jobVars, manifestVars>>

\* The run on the torrents it is given, where those of the client are not
\* followed.
CleanupStalledRun(infos, old, untitled) ==
  CleanupStalledRows(infos, old, untitled) /\ UNCHANGED qbit

\* The maintenance among polls of single candidates and organized files.
MaintenanceNext ==
  \/ Ready /\ \E s \in ShowIds, total \in TotalEpsValues : AddShow(s, total)
  \/ Ready /\ \E s \in ShowIds, ep \in 1..MaxEp :
       ReconcileFile(s, 1, ep, ".mkv", <<"md5", ep>>, TRUE)
  \/ Ready /\ \E s \in ShowIds, c \in Feed : PollShow(s, <<c>>)
  \/ Ready /\ \E infos \in {{}} \cup {{t} : t \in ClientTorrents},
                  old \in SUBSET BagToSet(releases) :
       \E untitled \in SUBSET {r \in old : ExtractBtih(r.magnet_or_torrent) = None} :
         CleanupStalledRun(infos, old, untitled)
  \/ Return

---------------------------------------------------------------------------
(***************************************************************************)
(* The pipeline and the maintenance with the torrents of the client: the   *)
(* torrents the pipeline adds, those that disappear, and the age of the    *)
(* Release rows.  qbit.pruned: the episodes a row of which the maintenance *)
(* has deleted when the client no longer held its torrent.                 *)
(***************************************************************************)
QbitInit == qbit = [torrents |-> {}, old |-> {}, pruned |-> {}]

\* Release.title, the title of the feed item: the name of the show and what
\* tells the release apart.
ReleaseTitle(r) == <<TitleOf(r.show_id), r.magnet_or_torrent>>

\* The info hash of the torrent of a link.  The page and the magnet of a
\* release are the same torrent; the hash of a .torrent file is in the file,
\* not in its URL.
InfoHash(link) == IF link = TorrentLink THEN MaxEp + 1 ELSE link[2]

\* The torrent torrents_add makes of the link of a row.  Its name comes from
\* the torrent, not from the feed: the title of the release, or the bare
\* name of the show (the folder of a pack).
AddedTorrent(r, titled) ==
  [hash |-> InfoHash(r.magnet_or_torrent),
   name |-> IF titled THEN ReleaseTitle(r) ELSE <<TitleOf(r.show_id)>>,
   save_path |-> ShowSavePath(r.show_id)]

\* a in b, for strings as sequences of their parts.
IsIn(a, b) == \E i \in 1..(Len(b) - Len(a) + 1) : SubSeq(b, i, i + Len(a) - 1) = a

\* present = any(title in n or n in title for n in active_titles if n)
Present(title, active_titles) ==
  \E n \in active_titles : IsIn(title, n) \/ IsIn(n, title)

\* The iteration for one show with the client: every row it adds is a call
\* of add_magnet that succeeded, and the client holds the torrent after it
\* (add_magnet does not add a torrent whose hash the client holds).
PollSingleShow(s, cands) ==
  /\ PollAndEnqueue(s, cands)
  /\ \E titled \in BOOLEAN :
       qbit' = [qbit EXCEPT !.torrents = @ \cup
                 {AddedTorrent(r, titled) :
                    r \in {x \in BagToSet(releases') \ BagToSet(releases) :
                             \A t \in qbit.torrents :
                               t.hash # InfoHash(x.magnet_or_torrent)}}]

\* A torrent leaves the client without the maintenance: it is deleted by
\* hand, or a page that is no torrent never became one.
TorrentDisappears(t) ==
  /\ t \in qbit.torrents
  /\ qbit' = [qbit EXCEPT !.torrents = @ \ {t}]
  /\ UNCHANGED <<shows, episodes, releases, report, incoming, sessions, ticks, jobVars,
                 manifestVars>>

\* 2 * max_age_minutes go by: every row is older than stale_cutoff.
Later ==
  /\ qbit.old # BagToSet(releases)
  /\ qbit' = [qbit EXCEPT !.old = BagToSet(releases)]
  /\ UNCHANGED <<shows, episodes, releases, report, incoming, sessions, ticks, jobVars,
                 manifestVars>>

\* qbit_maintenance_job: cleanup_stalled on what torrents_info reports.  The
\* torrents are all downloading, or all in error for max_age_minutes.
QbitMaintenanceJob ==
  \E broken \in BOOLEAN :
    LET infos == {[hash |-> t.hash, save_path |-> t.save_path,
                   state |-> IF broken THEN "error" ELSE "downloading",
                   progress |-> 0, age |-> IF broken THEN max_age_minutes ELSE 0,
                   content_gone |-> FALSE] : t \in qbit.torrents}
        active_titles == {t.name : t \in qbit.torrents}
        old == qbit.old \cap BagToSet(releases)
        untitled == {r \in old : /\ ExtractBtih(r.magnet_or_torrent) = None
                                  /\ ~Present(ReleaseTitle(r), active_titles)}
        remove_hashes == {t.hash : t \in {x \in infos :
                                            TorrentRemoved(x, CompleteShowSavePaths)}}
    IN /\ CleanupStalledRows(infos, old, untitled)
       /\ qbit' = [torrents |-> {t \in qbit.torrents : t.hash \notin remove_hashes},
                   old |-> qbit.old \cap BagToSet(releases'),
                   pruned |-> qbit.pruned \cup
                     {<<r.show_id, r.ep_no>> :
                        r \in {x \in BagToSet(releases) \ BagToSet(releases') :
                                 \A t \in qbit.torrents :
                                   t.hash # InfoHash(x.magnet_or_torrent)}}]

\* The iteration of sync_authentic_anime_info for a show the catalog knows
\* as finished, with all its episodes aired.
AiredMedia ==
  [id |-> 100, status |-> "FINISHED", episodes |-> Some(MaxEp),
   nextAiringEpisode |-> None, aired_max |-> MaxEp]

SyncAiredShow(s) ==
  /\ s \in DOMAIN shows
  /\ IF Truthy(shows[s].bangumi_id)
       THEN SyncShowWith(s, Some(AiredMedia), None)
       ELSE SyncShowWith(s, None, Some(AiredMedia))

\* A feed with a magnet and a page for every episode.
PagedFeed ==
  {[link |-> MagnetLink(n), raw_ep |-> Some(n), batch_range |-> None, score |-> 90] :
     n \in 1..MaxEp}
  \cup {[link |-> PageLink(n), raw_ep |-> Some(n), batch_range |-> None, score |-> 85] :
          n \in 1..MaxEp}

\* The pipeline and the maintenance, while torrents disappear and time goes
\* by.
LostTorrentNext ==
  \/ \E s \in ShowIds : AddShow(s, Some(MaxEp))
  \/ \E s \in ShowIds : SyncAiredShow(s)
  \/ \E s \in ShowIds, c \in PagedFeed : PollSingleShow(s, <<c>>)
  \/ \E t \in qbit.torrents : TorrentDisappears(t)
  \/ Later
  \/ QbitMaintenanceJob

---------------------------------------------------------------------------
(***************************************************************************)
(* Functions of the pipeline on inputs the database of the other           *)
(* specifications does not hold: a show with a ShowProfile row and with    *)
(* more than MaxEp wanted episodes.                                        *)
(***************************************************************************)
MaxWanted == 6

\* ShowProfile.min_score is an int column that POST /intake sets to the
\* min_score of the request, whatever it is.
ProfileScores == {None} \cup {Some(5 * k) : k \in 7..16}

EffectiveMinScoreCall(profile, first_sync, wanted_count) ==
  /\ report' = [op |-> "min_score", profile |-> profile, first_sync |-> first_sync,
                wanted_count |-> wanted_count,
                min_score |-> EffectiveMinScore(profile, first_sync, wanted_count)]
  /\ UNCHANGED <<shows, episodes, releases, incoming, sessions, ticks, qbit, jobVars,
                 manifestVars>>

\* Polls of a show that nothing else touches, with feeds long enough for a
\* poll to run into max_enqueue_attempts.
MaxFeedLen == 4

LongCandidateLists ==
  UNION {{q \in [1..n -> Feed] : \A i, j \in 1..n : i # j => q[i].link # q[j].link} :
           n \in 1..MaxFeedLen}

PollNext ==
  \/ Ready /\ \E s \in ShowIds, total \in TotalEpsValues : AddShow(s, total)
  \/ Ready /\ \E s \in ShowIds, cands \in LongCandidateLists : PollShow(s, cands)
  \/ Return

\* fetch_candidates.  The clock counts half seconds: elapsed and remaining
\* are floats in the code and int(remaining) cuts the fraction off.  A feed
\* is what its request meets: the half seconds the server takes and whether
\* it answers with a feed; a request that gets no answer within its timeout
\* raises, as one that gets an error does.
MaxFeeds == 3
MaxTotalTime == 3
\* the timeout_sec of the call (settings.rss_timeout_sec)
rss_timeout_sec == 2

FeedAnswers == [takes : {1, 3, 5}, ok : BOOLEAN]
FeedLists == UNION {[1..n -> FeedAnswers] : n \in 1..MaxFeeds}

Min(a, b) == IF a <= b THEN a ELSE b

\* per_call_timeout, in seconds, with remaining half seconds left
PerCallTimeout(timeout_sec, remaining) ==
  Max(1, Min(timeout_sec, remaining \div 2))

RECURSIVE FetchLoop(_, _, _, _, _)
\* The loop over the feed URLs from elapsed half seconds on: the requests
\* it makes, each with the half seconds that remained (None without a
\* deadline), its timeout and whether it raised; stopped: the loop ended at
\* `if remaining <= 0: break`.
FetchLoop(feeds, elapsed, timeout_sec, max_total_time_sec, log) ==
  IF feeds = << >> THEN [requests |-> log, stopped |-> FALSE]
  ELSE LET remaining == IF max_total_time_sec # None
                          THEN 2 * Val(max_total_time_sec) - elapsed ELSE 0
           per_call_timeout == IF max_total_time_sec # None
                                 THEN PerCallTimeout(timeout_sec, remaining)
                                 ELSE timeout_sec
           answered == Head(feeds).takes <= 2 * per_call_timeout
           request == [remaining |-> IF max_total_time_sec # None
                                       THEN Some(remaining) ELSE None,
                       timeout |-> per_call_timeout,
                       raised |-> ~(answered /\ Head(feeds).ok)]
       IN IF max_total_time_sec # None /\ remaining <= 0
            THEN [requests |-> log, stopped |-> TRUE]
            ELSE FetchLoop(Tail(feeds),
                           elapsed + Min(Head(feeds).takes, 2 * per_call_timeout),
                           timeout_sec, max_total_time_sec, Append(log, request))

FetchCandidatesCall(feeds, max_total_time_sec) ==
  /\ LET run == FetchLoop(feeds, 0, rss_timeout_sec, max_total_time_sec, << >>)
     IN report' = [op |-> "fetch_candidates", feeds |-> Len(feeds),
                   max_total_time_sec |-> max_total_time_sec,
                   requests |-> run.requests, stopped |-> run.stopped]
  /\ UNCHANGED <<shows, episodes, releases, incoming, sessions, ticks, qbit, jobVars,
                 manifestVars>>

FunctionNext ==
  \/ \E profile \in ProfileScores, first_sync \in BOOLEAN, wanted_count \in 0..MaxWanted :
       EffectiveMinScoreCall(profile, first_sync, wanted_count)
  \/ \E feeds \in FeedLists,
         max_total_time_sec \in {None} \cup {Some(t) : t \in 0..MaxTotalTime} :
       FetchCandidatesCall(feeds, max_total_time_sec)

---------------------------------------------------------------------------
(***************************************************************************)
(* Specifications.  Every subsystem starts from the state after            *)
(* construction; a specification runs the operations of one subsystem and  *)
(* leaves the others where they started.                                   *)
(***************************************************************************)
Init == JobInit /\ ManifestInit /\ StoreInit /\ SchedulerInit /\ QbitInit

JobSpec == Init /\ [][JobNext]_vars

JobFairSpec == Init /\ [][JobNext]_vars /\ JobFairness

ManifestApiSpec == Init /\ [][ManifestApiNext]_vars

ManifestSpec == Init /\ [][ManifestNext]_vars

\* The library database and the services that write it.
Spec == Init /\ [][Next]_vars

ReconcileSpec == Init /\ [][ReconcileNext]_vars

\* The routes, and the jobs, on sessions of their own.
RequestSpec == Init /\ [][RequestNext]_vars

SessionSpec == Init /\ [][SessionNext]_vars

SchedulerSpec == Init /\ [][SchedulerNext]_vars

FunctionSpec == Init /\ [][FunctionNext]_vars

PollSpec == Init /\ [][PollNext]_vars

ReconcileRunSpec == Init /\ [][ReconcileRunNext]_vars

ManifestCrashSpec == Init /\ [][ManifestCrashNext]_vars

MaintenanceSpec == Init /\ [][MaintenanceNext]_vars

PipelinesSpec == Init /\ [][PipelinesNext]_vars

\* The scheduler runs qbit_maintenance_job at every interval, and time goes
\* by.
LostTorrentSpec ==
  Init /\ [][LostTorrentNext]_vars /\ WF_vars(Later) /\ WF_vars(QbitMaintenanceJob)

---------------------------------------------------------------------------
(***************************************************************************)
(* Claims about the job runner.                                            *)
(***************************************************************************)
StatusEdges ==
  {<<"queued", "running">>, <<"running", "done">>, <<"running", "failed">>,
   <<"queued", "cancelled">>}

\* C8 (as claimed): a job's status changes only along queued -> running ->
\* done or failed, or queued -> cancelled, so done, failed and cancelled are
\* final, under every interleaving of the worker with get and cancel.
C8_StatusOnlyAlongEdges ==
  [][\A j \in DOMAIN jobs :
       jobs'[j].status # jobs[j].status
         => <<jobs[j].status, jobs'[j].status>> \in StatusEdges]_vars

\* A get(j) has returned a job whose status is terminal.
ObservedTerminal(j) ==
  ret.op = "get" /\ ret.id = j /\ ret.found /\ ret.status \in Terminal

\* C9 (as claimed): every submitted job is eventually observed in a terminal
\* status by a caller that keeps calling get, even if fn never returns.
C9_EveryJobObservedTerminal ==
  \A j \in JobIds : [](j \in DOMAIN jobs => <>ObservedTerminal(j))

\* C9 (amended): every job submitted with a timeout_sec that is neither None
\* nor 0 is eventually observed in a terminal status by a caller that keeps
\* calling get, even if fn never returns.
C9_TimedJobObservedTerminal ==
  \A j \in JobIds :
    []((j \in DOMAIN jobs /\ Truthy(jobs[j].timeout_sec)) => <>ObservedTerminal(j))

\* C9 witness: the worker is still inside fn and get has reported the job
\* failed by the watchdog.
C9_Witness ==
  /\ "j1" \in DOMAIN jobs
  /\ pc["j1"] = "fn"
  /\ ObservedTerminal("j1")
  /\ Truthy(jobs["j1"].timeout_sec)
  /\ jobs["j1"].error = WatchdogError(jobs["j1"])

\* "Still running at a time later than started_at + timeout_sec + 5 s", for a
\* job that has a timeout_sec.
PastDeadline(job) ==
  /\ job.status = "running"
  /\ job.timeout_sec # None
  /\ job.elapsed > Val(job.timeout_sec) + WatchdogGrace

\* What get does, given whether the claim calls the watchdog due for job j.
GetBehaves(j, due) ==
  /\ (GetCall(j) /\ j \notin DOMAIN jobs)
       => (~ret'.found /\ jobs' = jobs /\ api' = Idle)
  /\ (GetCall(j) /\ j \in DOMAIN jobs /\ ~due)
       => (ret'.found /\ jobs' = jobs /\ api' = Idle)
  /\ (GetCall(j) /\ j \in DOMAIN jobs /\ due)
       => (api' = [op |-> "get", id |-> j] /\ jobs' = jobs)
  /\ (GetWrite /\ api.id = j)
       => /\ jobs'[j].status = "failed"
          /\ jobs'[j].error # None
          /\ Val(jobs'[j].error)[1] = "job watchdog timeout after"
          /\ jobs'[j].finished_at # None
          /\ ret'.found /\ ret'.status = "failed"
          /\ \A f \in {"timeout_sec", "started_at", "elapsed", "result", "cancelled"} :
               jobs'[j][f] = jobs[j][f]

\* C10 (as claimed): get on a job still running later than started_at +
\* timeout_sec + 5 s marks it failed with a "job watchdog timeout" error and
\* sets finished_at; get in any other situation changes nothing; get on an
\* unknown id returns nothing.
C10_WatchdogAsClaimed ==
  [][\A j \in JobIds :
       GetBehaves(j, j \in DOMAIN jobs /\ PastDeadline(jobs[j]))]_vars

\* C10 (amended): as claimed, for a job whose timeout_sec is not 0; a job
\* with timeout_sec = 0 (or None) is never touched by get.
C10_WatchdogNonZeroTimeout ==
  [][\A j \in JobIds :
       GetBehaves(j, /\ j \in DOMAIN jobs
                     /\ PastDeadline(jobs[j])
                     /\ jobs[j].timeout_sec # Some(0))]_vars

\* C10 witness: get has just marked a running job failed by the watchdog.
C10_Witness ==
  /\ ret.op = "get" /\ ret.id = "j1" /\ ret.status = "failed"
  /\ "j1" \in DOMAIN jobs
  /\ jobs["j1"].status = "failed"
  /\ Truthy(jobs["j1"].timeout_sec)
  /\ jobs["j1"].error = WatchdogError(jobs["j1"])
  /\ jobs["j1"].finished_at = Some(jobs["j1"].elapsed)

(* C11: a cancel that finds the job queued makes it cancelled for good: a   *)
(* job whose status is cancelled stays cancelled and is never started (its *)
(* fn is never invoked), however cancel interleaves with the start of the  *)
(* job's worker thread.                                                     *)
C11_CancelledBeforeRunningStays ==
  [][\A j \in DOMAIN jobs :
        jobs[j].status = "cancelled"
          => /\ jobs'[j].status = "cancelled"
             /\ jobs'[j].started_at = None
             /\ pc'[j] # "fn"]_vars

(* C12: once the worker has given up on a job whose fn overran timeout_sec *)
(* the job is failed with the error "job timeout after <timeout_sec>s",    *)
(* and it stays so while the abandoned fn is still running.                *)
TimeoutError(job) == Some(<<"job timeout after", Val(job.timeout_sec)>>)

C12_TimedOutJobReportsTimeout ==
  \A j \in DOMAIN jobs :
    pc[j] = "abandoned"
      => /\ jobs[j].status = "failed"
         /\ jobs[j].error = TimeoutError(jobs[j])


(* C26: cancel(id) on a running job sets the job's cancelled flag and      *)
(* returns true, and nothing else: status, result, error and finished_at   *)
(* are as before the call and no write is left pending.  cancel on an      *)
(* unknown id, or on a job that is done, failed or cancelled, returns      *)
(* false and changes no field of any job.                                  *)
C26_CancelFrame ==
  [][ \A j \in JobIds :
        CancelCall(j) =>
          IF j \in DOMAIN jobs /\ jobs[j].status = "running"
            THEN /\ jobs' = [jobs EXCEPT ![j].cancelled = TRUE]
                 /\ ret'.op = "cancel" /\ ret'.id = j /\ ret'.found
                 /\ api' = Idle
          ELSE IF j \notin DOMAIN jobs \/ jobs[j].status \in Terminal
            THEN /\ jobs' = jobs
                 /\ ret'.op = "cancel" /\ ret'.id = j /\ ~ret'.found
                 /\ api' = Idle
          ELSE TRUE
    ]_vars

\* cancel has answered true for a job that is still running, flagged but
\* otherwise untouched by the call.
C26_Witness ==
  /\ ret = [op |-> "cancel", id |-> "j1", found |-> TRUE, status |-> "running"]
  /\ "j1" \in DOMAIN jobs
  /\ jobs["j1"].status = "running"
  /\ jobs["j1"].cancelled
  /\ jobs["j1"].finished_at = None
  /\ jobs["j1"].result = None /\ jobs["j1"].error = None
  /\ pc["j1"] = "fn"

---------------------------------------------------------------------------
(***************************************************************************)
(* Claims about the hash manifest.                                         *)
(***************************************************************************)

\* No two distinct episode keys of the document carry the same MD5, and
\* every MD5 of hash_index maps to the key whose episodes entry holds it.
Injective(manifest) ==
  /\ \A k1, k2 \in DOMAIN manifest.episodes :
       k1 # k2 => manifest.episodes[k1].md5 # manifest.episodes[k2].md5
  /\ \A h \in DOMAIN manifest.hash_index :
       /\ manifest.hash_index[h] \in DOMAIN manifest.episodes
       /\ manifest.episodes[manifest.hash_index[h]].md5 = h

\* C5: after any sequence of reconciler organize steps on one series (the
\* consistency check, then record_episode_hash only when the check passes),
\* no two distinct episode keys carry the same MD5 and every MD5 in
\* hash_index maps to the one key whose episodes entry holds that MD5.
C5_ManifestInjective ==
  \A sr \in Series : Injective(LoadManifest(sr))

\* Two episodes are recorded under different hashes and a third file, whose
\* hash is already indexed under another key, has just been turned away.
C5_Witness ==
  /\ mcall.fn = "organize"
  /\ ~mcall.result.ok
  /\ Cardinality(DOMAIN LoadManifest(mcall.series).episodes) >= 2
  /\ Cardinality(DOMAIN LoadManifest(mcall.series).hash_index) >= 2

\* The two failure conditions of the consistency check, as stated: the hash
\* is indexed under another key; the key's entry holds another hash.
HashConflict(manifest, key, md5) ==
  md5 \in DOMAIN manifest.hash_index /\ manifest.hash_index[md5] # key
EpisodeMismatch(manifest, key, md5) ==
  key \in DOMAIN manifest.episodes /\ manifest.episodes[key].md5 # md5

HasReason(reasons, r) == \E i \in DOMAIN reasons : reasons[i] = r

\* C6: check_mapping_consistency fails exactly when hash_index[md5] exists
\* and differs from the key (reason hash_conflicts_with_<that key>) or
\* episodes[key].md5 exists and differs from md5 (reason
\* episode_md5_mismatch); otherwise it returns ok with no reason; it never
\* changes the manifest.
C6_CheckExactlyWhenConflict ==
  [][ mcall'.fn = "check" =>
        LET manifest == LoadManifest(mcall'.series)
            key == EpisodeKey(mcall'.season, mcall'.ep_no)
            md5 == mcall'.md5
            res == mcall'.result
            conflict == HashConflict(manifest, key, md5)
            mismatch == EpisodeMismatch(manifest, key, md5)
        IN /\ res.ok <=> ~(conflict \/ mismatch)
           /\ conflict =>
                HasReason(res.reasons, <<"hash_conflicts_with", manifest.hash_index[md5]>>)
           /\ ~conflict =>
                ~\E i \in DOMAIN res.reasons : res.reasons[i][1] = "hash_conflicts_with"
           /\ mismatch <=> HasReason(res.reasons, <<"episode_md5_mismatch">>)
           /\ Len(res.reasons) = (IF conflict THEN 1 ELSE 0) + (IF mismatch THEN 1 ELSE 0)
           /\ mfile' = mfile
    ]_vars

\* A check that fails for both reasons at once, on a manifest with entries.
C6_Witness ==
  /\ mcall.fn = "check"
  /\ ~mcall.result.ok
  /\ Len(mcall.result.reasons) = 2
  /\ HashConflict(LoadManifest(mcall.series),
                  EpisodeKey(mcall.season, mcall.ep_no), mcall.md5)
  /\ EpisodeMismatch(LoadManifest(mcall.series),
                     EpisodeKey(mcall.season, mcall.ep_no), mcall.md5)

\* C7: a record_episode_hash call that returns leaves episodes[key].md5 = md5
\* and hash_index[md5] = key as load_manifest reads them back, and leaves
\* every entry recorded under another key (and the index of every other
\* hash) as it was; no call of the module ever removes an episode entry.
C7_RecordKeepsOtherEntries ==
  [][ /\ \A sr \in Series :
           DOMAIN LoadFile(mfile[sr]).episodes \subseteq DOMAIN LoadFile(mfile'[sr]).episodes
      /\ (mcall'.fn = "record" /\ ~mcall'.raised) =>
           LET before == LoadFile(mfile[mcall'.series])
               after == LoadFile(mfile'[mcall'.series])
               key == EpisodeKey(mcall'.season, mcall'.ep_no)
               md5 == mcall'.md5
           IN /\ key \in DOMAIN after.episodes
              /\ after.episodes[key].md5 = md5
              /\ after.episodes[key].path = mcall'.path
              /\ md5 \in DOMAIN after.hash_index
              /\ after.hash_index[md5] = key
              /\ \A k \in DOMAIN before.episodes \ {key} :
                   k \in DOMAIN after.episodes /\ after.episodes[k] = before.episodes[k]
              /\ \A h \in DOMAIN before.hash_index \ {md5} :
                   h \in DOMAIN after.hash_index /\ after.hash_index[h] = before.hash_index[h]
    ]_vars

\* A record has just returned on a manifest that holds entries under two
\* other keys.
C7_Witness ==
  /\ mcall.fn = "record"
  /\ ~mcall.raised
  /\ LET manifest == LoadManifest(mcall.series)
         key == EpisodeKey(mcall.season, mcall.ep_no)
     IN /\ Cardinality(DOMAIN manifest.episodes \ {key}) >= 2
        /\ manifest.episodes[key].md5 = mcall.md5

\* The statuses reported for one episode key, in the order of the report.
StatusesFor(mismatches, key) ==
  LET found == SelectSeq(mismatches, LAMBDA m : m.episode = key)
  IN [i \in 1..Len(found) |-> found[i].status]

(* C27: verify_range_against_manifest writes nothing, and for each key     *)
(* SxxExx with ep in [start, end] it reports exactly one mismatch:         *)
(* missing_manifest_entry when the manifest has no entry for the key, else *)
(* missing_file when the recorded path does not exist, else md5_mismatch   *)
(* when the file's MD5 differs from the recorded one; it reports nothing   *)
(* for a key whose entry exists, whose path exists and whose MD5 matches,  *)
(* and nothing for any other key.                                          *)
C27_VerifyRangeReportsFirstFailure ==
  [][ mcall'.fn = "verify" =>
        LET c == mcall'
            entries == LoadManifest(c.series).episodes
        IN /\ mfile' = mfile
           /\ \A i \in 1..Len(c.mismatches) :
                \E ep \in c.start_ep..c.end_ep :
                  c.mismatches[i].episode = EpisodeKey(c.season, ep)
           /\ \A ep \in c.start_ep..c.end_ep :
                LET key == EpisodeKey(c.season, ep)
                    statuses == StatusesFor(c.mismatches, key)
                IN IF key \notin DOMAIN entries
                     THEN statuses = <<"missing_manifest_entry">>
                   ELSE IF c.disk[entries[key].path] = None
                     THEN statuses = <<"missing_file">>
                   ELSE IF c.disk[entries[key].path] # Some(entries[key].md5)
                     THEN statuses = <<"md5_mismatch">>
                   ELSE statuses = << >>
    ]_vars

\* A range of two recorded episodes has been verified: the file of the first
\* is gone, the file of the second is there with the recorded MD5.
C27_Witness ==
  /\ mcall.fn = "verify"
  /\ mcall.start_ep = 1 /\ mcall.end_ep = 2
  /\ LET entries == LoadManifest(mcall.series).episodes
         k1 == EpisodeKey(mcall.season, 1)
         k2 == EpisodeKey(mcall.season, 2)
     IN /\ {k1, k2} \subseteq DOMAIN entries
        /\ mcall.disk[entries[k1].path] = None
        /\ mcall.disk[entries[k2].path] = Some(entries[k2].md5)
        /\ Len(mcall.mismatches) = 1
        /\ mcall.mismatches[1].episode = k1
        /\ mcall.mismatches[1].status = "missing_file"

---------------------------------------------------------------------------
(***************************************************************************)
(* Claims about the library database.                                      *)
(***************************************************************************)

\* The rows of one show in a table, counted.
CountOf(table, s) == BagCardinality([r \in RowsOf(table, s) |-> table[r]])

\* C1: an Episode row whose state is downloaded is still there, and still
\* downloaded, after any run of the resolver (overflow cleanup included) and
\* of the reconciler, and after any run of the other services as well.
C1_DownloadedStays ==
  [][ \A r \in BagToSet(episodes) :
        r.state = "downloaded" => CopiesIn(r, episodes') >= CopiesIn(r, episodes)
    ]_vars

\* The resolver has just run on a show that holds a downloaded episode past
\* its total_eps, next to the rows it synchronised.
C1_Witness ==
  /\ report.op = "sync"
  /\ report.matched
  /\ \E r \in BagToSet(episodes) :
       /\ r.state = "downloaded"
       /\ Truthy(shows[r.show_id].total_eps)
       /\ r.ep_no > Val(shows[r.show_id].total_eps)
  /\ \E r \in BagToSet(episodes) : r.state = "aired"

\* C2: when the lookup by id fails for a show whose catalog id is set, the
\* resolver leaves the catalog id as it was and reports
\* transient_fetch_failure for the show.
C2_StickyCatalogId ==
  [][ \A s \in DOMAIN shows :
        (/\ report'.op = "sync"
         /\ report'.show_id = s
         /\ Truthy(shows[s].bangumi_id)
         /\ report'.by_id_failed)
        => /\ shows'[s].bangumi_id = shows[s].bangumi_id
           /\ report'.transient_fetch_failure
    ]_vars

\* C3: one iteration of poll_and_enqueue creates at most
\* max_add_per_show_per_cycle Release rows for its show, Pass 1 and Pass 2
\* together, whatever the candidates and whichever add_magnet calls fail.
C3_BoundedEnqueues ==
  [][ report'.op = "poll" =>
        /\ CountOf(releases', report'.show_id) - CountOf(releases, report'.show_id)
             = report'.added
        /\ report'.added <= max_add_per_show_per_cycle
    ]_vars

\* A poll has stopped at the cap although another aired episode has no
\* release yet.
C3_Witness ==
  /\ report.op = "poll"
  /\ report.added = max_add_per_show_per_cycle
  /\ \E e \in RowsOf(episodes, report.show_id) :
       /\ e.state = "aired"
       /\ ~\E r \in RowsOf(releases, report.show_id) : r.ep_no = e.ep_no

\* C4: after any sequence of pipeline iterations and torrent-maintenance
\* runs there is at most one Release row per (show_id, ep_no,
\* magnet_or_torrent).
C4_OneReleasePerTriple ==
  \A r \in BagToSet(releases) : CopiesIn(r, releases) <= 1

\* A poll has just enqueued a release and the table holds two rows.
C4_Witness ==
  /\ report.op = "poll"
  /\ report.added >= 1
  /\ BagCardinality(releases) >= 2


(* C13 as stated: the answer of GET /shows/{id}/status has complete true   *)
(* exactly when total_eps is not null and the number of distinct           *)
(* downloaded episode numbers is at least total_eps, and missing_count is  *)
(* max(total_eps - downloaded_count, 0) whenever total_eps is not null.    *)
StatusAnswered == report.op = "show_status" /\ report.code = 200

C13_CompleteWhenTotalNotNull ==
  StatusAnswered =>
    LET total == shows[report.show_id].total_eps
        count == Cardinality(DownloadedEps(episodes, report.show_id))
    IN /\ report.body.downloaded_count = count
       /\ report.body.complete <=> (total # None /\ count >= Val(total))
       /\ total # None
            => report.body.missing_count = Some(Max(Val(total) - count, 0))

(* C13: complete is true exactly when total_eps is neither null nor 0 and  *)
(* the number of distinct downloaded episode numbers is at least           *)
(* total_eps, whatever the highest downloaded episode number is;           *)
(* missing_count is max(total_eps - downloaded_count, 0) for such a        *)
(* total_eps and null otherwise.                                           *)
C13_CompleteByCount ==
  StatusAnswered =>
    LET total == shows[report.show_id].total_eps
        count == Cardinality(DownloadedEps(episodes, report.show_id))
    IN /\ report.body.downloaded_count = count
       /\ report.body.complete <=> (Truthy(total) /\ count >= Val(total))
       /\ report.body.missing_count =
            IF Truthy(total) THEN Some(Max(Val(total) - count, 0)) ELSE None

\* The highest downloaded episode is the last one, an earlier one is
\* missing, and the show is reported incomplete.
C13_Witness ==
  /\ StatusAnswered
  /\ Truthy(report.body.total_eps)
  /\ report.body.latest_downloaded_ep = report.body.total_eps
  /\ report.body.downloaded_count < Val(report.body.total_eps)
  /\ report.body.missing_count = Some(Val(report.body.total_eps) - report.body.downloaded_count)
  /\ ~report.body.complete


(* C14 as stated: a poll of a show whose downloaded count is at least      *)
(* total_eps and whose wanted set is empty fetches no feed and no fallback *)
(* API, calls the torrent client not at all, creates no Release or Episode *)
(* row and adds nothing.                                                   *)
WantedEps(table, s) ==
  LET downloaded == DownloadedEps(table, s)
      backlog == {r.ep_no : r \in {x \in RowsOf(table, s) : x.state \in {"aired", "missing"}}}
                   \ downloaded
  IN IF backlog = {} /\ downloaded = {} /\ Truthy(shows[s].total_eps)
       THEN 1..Val(shows[s].total_eps) ELSE backlog

PollDoesNothing ==
  /\ report'.rss_fetches = 0 /\ report'.api_fetches = 0
  /\ report'.client_calls = 0 /\ report'.added = 0
  /\ episodes' = episodes /\ releases' = releases

C14_SkipWhenCountReachesTotal ==
  [][\A s \in DOMAIN shows :
       ( /\ report'.op = "poll" /\ report'.show_id = s
         /\ shows[s].total_eps # None
         /\ Cardinality(DownloadedEps(episodes, s)) >= Val(shows[s].total_eps)
         /\ WantedEps(episodes, s) = {} )
       => PollDoesNothing]_vars

(* C14: the same for a show whose total_eps is neither null nor 0.         *)
C14_CompleteShowSkipped ==
  [][\A s \in DOMAIN shows :
       ( /\ report'.op = "poll" /\ report'.show_id = s
         /\ Truthy(shows[s].total_eps)
         /\ Cardinality(DownloadedEps(episodes, s)) >= Val(shows[s].total_eps)
         /\ WantedEps(episodes, s) = {} )
       => PollDoesNothing]_vars

\* A complete show that wants nothing has been polled and skipped.
C14_Witness ==
  /\ report.op = "poll" /\ report.skipped
  /\ report.rss_fetches = 0 /\ report.client_calls = 0 /\ report.added = 0
  /\ Truthy(shows[report.show_id].total_eps)
  /\ Cardinality(DownloadedEps(episodes, report.show_id)) >= Val(shows[report.show_id].total_eps)
  /\ WantedEps(episodes, report.show_id) = {}


(* C15: when a poll enqueues a batch pack whose episode range overlaps the *)
(* show's wanted set, it creates exactly one Release row for the pack, and *)
(* the ep_no of that row is the smallest wanted episode inside the range.  *)
BatchPack == CHOOSE c \in Feed : c.link = BatchLink

BatchOverlap(table, s) ==
  {ep \in WantedEps(table, s) : Val(BatchPack.batch_range)[1] <= ep
                                 /\ ep <= Val(BatchPack.batch_range)[2]}

---------------------------------------------------------------------------
(***************************************************************************)
(* Claims about the reconciler (specification ReconcileSpec).              *)
(***************************************************************************)
ReconcileRan == report'.op = "reconcile_library"

(* C16: a run of reconcile_library that finds no eligible file in the      *)
(* incoming folder (none at all, or one that is still downloading or too   *)
(* fresh) moves and deletes no file, creates and changes no Episode row,   *)
(* writes no manifest, appends no review-queue line, requests no torrent   *)
(* removal, and reports moved = 0.                                         *)
C16_NothingEligibleNothingChanges ==
  [][(ReconcileRan /\ report'.file_status \in {"none", "downloading", "fresh"})
       => /\ incoming' = incoming
          /\ report'.moves = {} /\ report'.deleted = {}
          /\ episodes' = episodes
          /\ mfile' = mfile /\ ~report'.manifest_written
          /\ report'.review = << >>
          /\ report'.delete_request = None
          /\ report'.moved = 0
          /\ shows' = shows /\ releases' = releases]_vars

\* A later run: an episode has been organized before, the folder holds a
\* file that is not eligible yet, and the run has moved nothing.
C16_Witness ==
  /\ report.op = "reconcile_library" /\ report.moved = 0 /\ report.scanned = 1
  /\ report.file_status \in {"downloading", "fresh"}
  /\ incoming # None
  /\ \E r \in BagToSet(episodes) : r.state = "downloaded"
  /\ mfile[TitleOf(report.show_id)].kind # "absent"

(* C17 as stated: the classification of a ready, valid file follows the    *)
(* priority order extra keyword and explicit episode signal, extra keyword *)
(* only, episode unknown or not confident, episode > total_eps (for every  *)
(* total_eps that is not null), runtime outlier, else episode_confident.   *)
FileTaken == ReconcileRan /\ report'.moved = 1

ClaimedOutlier(duration, library) ==
  /\ Len(library) >= 3 /\ duration # None
  /\ \/ 100 * Val(duration) < 55 * Median(library)
     \/ 10 * Val(duration) > 18 * Median(library)

ClaimedClass(f, out_of_range, outlier) ==
  IF f.has_extra_keyword /\ f.explicit_episode_signal THEN "needs_review"
  ELSE IF f.has_extra_keyword THEN "extra_known"
  ELSE IF f.ep = None \/ ~ConfidentEp(f) THEN "needs_review"
  ELSE IF out_of_range THEN "needs_review"
  ELSE IF outlier THEN "needs_review"
  ELSE "episode_confident"

C17_ClassifiedAgainstAnyTotal ==
  [][FileTaken =>
       LET f == Val(incoming)
           total == shows[report'.show_id].total_eps
       IN report'.classification =
            ClaimedClass(f, total # None /\ f.ep # None /\ Val(f.ep) > Val(total),
                         ClaimedOutlier(report'.duration, report'.library))]_vars

(* C17: the same, the range test being made when total_eps is neither null *)
(* nor 0.                                                                  *)
C17_ClassifiedInPriorityOrder ==
  [][FileTaken =>
       LET f == Val(incoming)
           total == shows[report'.show_id].total_eps
       IN report'.classification =
            ClaimedClass(f, Truthy(total) /\ f.ep # None /\ Val(f.ep) > Val(total),
                         ClaimedOutlier(report'.duration, report'.library))]_vars

\* A file with a confident episode inside the show's range has been sent to
\* review for its runtime alone.
C17_Witness ==
  /\ report.op = "reconcile_library" /\ report.moved = 1
  /\ report.classification = "needs_review"
  /\ Len(report.library) >= 3
  /\ \E m \in report.moves :
       /\ ~m.src.has_extra_keyword /\ ConfidentEp(m.src)
       /\ Truthy(shows[report.show_id].total_eps)
       /\ Val(m.src.ep) <= Val(shows[report.show_id].total_eps)
  /\ report.review[1].reasons = {"runtime_outlier"}

(* C18: a file routed to quarantine (classified extra_known or             *)
(* needs_review, or episode_confident but failing the manifest consistency *)
(* check) is moved under Extras/Known or Extras/Needs-Review, gets one     *)
(* review-queue line, and leaves the Episode rows and the manifest as they *)
(* were; an aired row of the guessed episode stays aired.                  *)
ManifestFails(s, f) ==
  LET manifest == LoadManifest(TitleOf(s))
      key == EpisodeKey(InferSeason(s), Val(f.ep))
  IN HashConflict(manifest, key, f.file_md5) \/ EpisodeMismatch(manifest, key, f.file_md5)

C18_QuarantineLeavesRowsAndManifest ==
  [][(FileTaken /\ ( \/ report'.classification \in {"extra_known", "needs_review"}
                     \/ ManifestFails(report'.show_id, Val(incoming)) ))
       => LET f == Val(incoming)
              bucket == IF report'.classification = "extra_known"
                          THEN "Known" ELSE "Needs-Review"
          IN /\ incoming' = None
             /\ report'.moves = {[src |-> f, dst |-> <<"Extras", bucket, f>>]}
             /\ Len(report'.review) = 1
             /\ report'.review[1].src_path = f
             /\ report'.review[1].classification =
                  (IF bucket = "Known" THEN "extra_known" ELSE "needs_review")
             /\ episodes' = episodes
             /\ mfile' = mfile /\ ~report'.manifest_written]_vars

\* An episode_confident file has failed the manifest check and gone to
\* Needs-Review while the row of its episode is still aired.
C18_Witness ==
  /\ report.op = "reconcile_library" /\ report.moved = 1
  /\ report.classification = "episode_confident"
  /\ report.routed = "Needs-Review"
  /\ Len(report.review) = 1
  /\ \E m \in report.moves :
       /\ m.dst = <<"Extras", "Needs-Review", m.src>>
       /\ \E r \in BagToSet(episodes) :
            r.show_id = report.show_id /\ r.ep_no = Val(m.src.ep) /\ r.state = "aired"
       /\ ~\E r \in BagToSet(episodes) :
            r.show_id = report.show_id /\ r.ep_no = Val(m.src.ep) /\ r.state = "downloaded"

(* C19: an episode_confident file that passes the manifest check is moved  *)
(* to the canonical path of (season, ep), its MD5 is recorded in the       *)
(* manifest under SxxExx, the Episode row (show_id, ep) is downloaded      *)
(* after the run (created if there was none, otherwise promoted in place), *)
(* and the hash of its torrent is sent to torrents_delete with the files   *)
(* kept.                                                                   *)
EpRows(table, s, n) == {r \in RowsOf(table, s) : r.ep_no = n}

C19_ConfidentFileOrganized ==
  [][(FileTaken /\ report'.classification = "episode_confident"
                /\ ~ManifestFails(report'.show_id, Val(incoming)))
       => LET f == Val(incoming)
              s == report'.show_id
              ep == Val(f.ep)
              key == EpisodeKey(InferSeason(s), ep)
              path == OrganizedPath(InferSeason(s), ep, ".mkv")
              after == LoadFile(mfile'[TitleOf(s)])
          IN /\ incoming' = None
             /\ report'.moves = {[src |-> f, dst |-> path]}
             /\ report'.review = << >>
             /\ key \in DOMAIN after.episodes
             /\ after.episodes[key] = [md5 |-> f.file_md5, path |-> path]
             /\ after.hash_index[f.file_md5] = key
             /\ \E r \in EpRows(episodes', s, ep) : r.state = "downloaded"
             /\ IF EpRows(episodes, s, ep) = {}
                  THEN episodes' = episodes (+) One(EpisodeRow(s, ep, "downloaded"))
                  ELSE BagCardinality(episodes') = BagCardinality(episodes)
             /\ report'.file_status = "complete"
                  => report'.delete_request =
                       Some([torrent_hashes |-> {TorrentHash(f)}, delete_files |-> FALSE])]_vars

\* A file has been organized from a finished torrent and the row of its
\* episode, which the resolver had created, is downloaded.
C19_Witness ==
  /\ report.op = "reconcile_library" /\ report.routed = "organized"
  /\ report.delete_request # None
  /\ Truthy(shows[report.show_id].bangumi_id)
  /\ \E m \in report.moves :
       LET ep == Val(m.src.ep)
           key == EpisodeKey(InferSeason(report.show_id), ep)
       IN /\ m.dst = OrganizedPath(InferSeason(report.show_id), ep, ".mkv")
          /\ LoadManifest(TitleOf(report.show_id)).episodes[key].md5 = m.src.file_md5
          /\ EpRows(episodes, report.show_id, ep) =
               {EpisodeRow(report.show_id, ep, "downloaded")}
          /\ CopiesIn(EpisodeRow(report.show_id, ep, "downloaded"), episodes) = 1

---------------------------------------------------------------------------
(***************************************************************************)
(* The library database again (specification Spec).                        *)
(***************************************************************************)
DownloadedRows(table) ==
  BagCardinality([r \in {x \in BagToSet(table) : x.state = "downloaded"} |-> table[r]])

(* C20: no run of the resolver, the pipeline, the torrent maintenance, the *)
(* intake or any other route adds a downloaded Episode row or turns a row  *)
(* into downloaded; the rows in state downloaded grow only in a reconciler *)
(* step that organizes a file.                                             *)
C20_OnlyReconcilerPromotes ==
  [][\/ DownloadedRows(episodes') <= DownloadedRows(episodes)
     \/ /\ report'.op = "reconcile" /\ report'.organized
        /\ DownloadedRows(episodes') = DownloadedRows(episodes) + 1]_vars

\* The pipeline has enqueued a release for a show that has a downloaded
\* episode and an aired one.
C20_Witness ==
  /\ report.op = "poll" /\ report.added >= 1
  /\ \E r \in BagToSet(episodes) : r.state = "downloaded"
  /\ \E r \in BagToSet(episodes) : r.state = "aired"
  /\ releases # EmptyBag

---------------------------------------------------------------------------
(***************************************************************************)
(* Claims about the Episode rows of a show.                                *)
(***************************************************************************)

\* A successful resolver sync of a show is the step being taken.
SyncedStep == report'.op = "sync" /\ report'.matched

\* max(total_eps, aired_upto), an unknown total_eps counting as 0.
MaxEpOf(total_eps, aired_upto) ==
  Max(IF total_eps = None THEN 0 ELSE Val(total_eps), aired_upto)

(* C21: after a successful resolver sync of a show, with max_ep =          *)
(* max(total_eps, aired_upto), every n in 1..max_ep has an Episode row of  *)
(* the show; the row is aired if n <= aired_upto and planned otherwise,    *)
(* unless it was downloaded before the sync, and then it still is.         *)
C21_RowsSynchronised ==
  [][ SyncedStep =>
        LET s == report'.show_id
            aired_upto == report'.aired_upto
            max_ep == MaxEpOf(shows'[s].total_eps, aired_upto)
        IN \A n \in 1..max_ep :
             /\ \E r \in RowsOf(episodes', s) : r.ep_no = n
             /\ \A r \in RowsOf(episodes', s) :
                  r.ep_no = n =>
                    r.state = IF EpisodeRow(s, n, "downloaded") \in BagToSet(episodes)
                                THEN "downloaded"
                              ELSE IF n <= aired_upto THEN "aired" ELSE "planned"
    ]_vars

(* C22: (show_id, ep_no) is unique among the Episode rows in every         *)
(* reachable state, also when the resolver, the pipeline and the           *)
(* reconciler run concurrently on sessions of their own, each creating a   *)
(* missing row after it has checked that the row is absent.                *)
C22_EpisodeKeyUnique ==
  \A r1, r2 \in BagToSet(episodes) :
    /\ CopiesIn(r1, episodes) = 1
    /\ (r1.show_id = r2.show_id /\ r1.ep_no = r2.ep_no) => r1 = r2

\* The episode numbers of a show's rows.
EpNosOf(table, s) == {r.ep_no : r \in RowsOf(table, s)}

\* The rows of show s run from 1 up to max(total_eps, aired_upto) for some
\* aired_upto: the last synchronisation's value is not kept, so any value
\* that fits counts.
Contiguous(show_rows, table, s) ==
  \E aired_upto \in 0..(MaxEp + 1) :
    EpNosOf(table, s) = 1..MaxEpOf(show_rows[s].total_eps, aired_upto)

(* C23: in every state reached by operations of the resolver, the pipeline *)
(* and the reconciler the episode numbers of a show's rows are contiguous  *)
(* from 1 up to max(total_eps, aired_upto): a successful sync leaves them  *)
(* so, and a run of any of the three that finds them so leaves them so.    *)
C23_EpisodesContiguous ==
  [][ \A s \in DOMAIN shows :
        (/\ report'.op \in {"sync", "poll", "reconcile"}
         /\ report'.show_id = s
         /\ \/ SyncedStep
            \/ Contiguous(shows, episodes, s))
        => Contiguous(shows', episodes', s)
    ]_vars

(* C28: when the fetch by id fails for a show whose catalog id is set, the *)
(* resolver keeps the mapping and only cleans up overflow rows: the        *)
(* show's catalog id, status and total_eps are as before, the catalog is   *)
(* not searched, no Episode row is created or changes state, and the rows  *)
(* that go are rows past total_eps that are not downloaded.                *)
C28_FailedFetchOnlyCleansUp ==
  [][ \A s \in DOMAIN shows :
        (/\ report'.op = "sync"
         /\ report'.show_id = s
         /\ Truthy(shows[s].bangumi_id)
         /\ report'.by_id_failed)
        => /\ shows'[s] = shows[s]
           /\ ~report'.searched
           /\ episodes' \sqsubseteq episodes
           /\ \A r \in BagToSet(episodes) :
                CopiesIn(r, episodes') < CopiesIn(r, episodes)
                  => /\ r.show_id = s
                     /\ r.state # "downloaded"
                     /\ Truthy(shows[s].total_eps)
                     /\ r.ep_no > Val(shows[s].total_eps)
    ]_vars

(* C29: every Release row a poll creates for a show has an ep_no of the    *)
(* show's wanted set for that poll (the episodes aired or missing and not  *)
(* downloaded, or 1..total_eps on bootstrap); a candidate whose episode    *)
(* lies outside the wanted set is never enqueued.                          *)
C29_EnqueuedWithinWanted ==
  [][ report'.op = "poll" =>
        \A r \in BagToSet(releases') :
          CopiesIn(r, releases') > CopiesIn(r, releases)
            => r.ep_no \in WantedEps(episodes, report'.show_id)
    ]_vars

(* C30: once per_show_time_budget_sec is exceeded during a show's fetch    *)
(* stage no further fetch is started (the fallback API is not called), but *)
(* the candidates already fetched are still ranked and enqueued: the poll  *)
(* leaves the rows that a poll of the same candidates with time to spare   *)
(* and a torrent client that accepts every link would leave.               *)
C30_FetchedCandidatesStillEnqueued ==
  [][ \A s \in DOMAIN shows, cands \in CandidateLists :
        (/\ report'.op = "poll"
         /\ report'.rss_fetches = 1
         /\ report'.api_fetches = 0
         /\ PollShow(s, cands))
        => \E page_up \in BOOLEAN :
             LET run == PollRun(episodes, releases, s, shows[s].total_eps, cands,
                                [fails |-> {}, page_up |-> page_up,
                                 budget |-> Unlimited])
             IN episodes' = run.episodes /\ releases' = run.releases
    ]_vars

---------------------------------------------------------------------------
(***************************************************************************)
(* Claims about the Show rows.                                             *)
(***************************************************************************)

(* C24: title_canonical is unique among the Show rows after any sequence   *)
(* and any interleaving of POST /shows and POST /intake calls: a call for  *)
(* a title that already has a show creates no second Show row.             *)
C24_TitleUnique ==
  \A s, t \in DOMAIN shows : TitleOf(s) = TitleOf(t) => s = t

---------------------------------------------------------------------------
(***************************************************************************)
(* Claims about the scheduler.                                             *)
(***************************************************************************)

(* C25: every timer's function -- per-show poll, library reconcile,        *)
(* torrent maintenance, metadata sync and recovery alike -- only submits   *)
(* its work to the job runner and returns: no invocation is ever inside    *)
(* the work itself, so the timer's next invocation is never held up.       *)
C25_TicksOnlySubmit ==
  \A t \in Timers \ {"poster_job"} : ticks[t] = "idle"

---------------------------------------------------------------------------
(***************************************************************************)
(* Claims about the selection of the pipeline (specification Spec).        *)
(***************************************************************************)
Polled == report.op = "poll" /\ ~report.skipped

\* (a.score, a.ep_no) <= (b.score, b.ep_no), as Python compares tuples
KeyLeq(a, b) == a.score < b.score \/ (a.score = b.score /\ a.key_ep <= b.key_ep)

(* C31: in the calls a poll makes to the torrent client, every call of     *)
(* Pass 1 comes before every call of Pass 2; the calls of Pass 1 go up in  *)
(* ep_no (strictly after a call that enqueued), so its Release rows are    *)
(* created in ascending ep_no; the calls of Pass 2 go down in (score,       *)
(* episode number).                                                        *)
C31_SelectionOrder ==
  Polled =>
    \A i, j \in 1..Len(report.log) :
      LET a == report.log[i]
          b == report.log[j]
      IN i < j =>
           /\ a.pass <= b.pass
           /\ (a.pass = 1 /\ b.pass = 1) =>
                 /\ a.ep_no <= b.ep_no
                 /\ a.ok => a.ep_no < b.ep_no
           /\ (a.pass = 2 /\ b.pass = 2) => KeyLeq(b, a)

\* Pass 1 has called the client for two episodes in turn.
C31_Witness ==
  /\ Polled
  /\ \E i, j \in 1..Len(report.log) :
       /\ i < j
       /\ report.log[i].pass = 1 /\ report.log[j].pass = 1
       /\ report.log[i].ep_no < report.log[j].ep_no

\* Pass 2 has called the client after Pass 1 did.
C31_WitnessPasses ==
  /\ Polled
  /\ \E i, j \in 1..Len(report.log) :
       i < j /\ report.log[i].pass = 1 /\ report.log[j].pass = 2

\* Pass 2 has called the client for two candidates of the same score.
C31_WitnessTie ==
  /\ Polled
  /\ \E i, j \in 1..Len(report.log) :
       /\ i < j
       /\ report.log[i].pass = 2 /\ report.log[j].pass = 2
       /\ report.log[i].score = report.log[j].score
       /\ report.log[i].key_ep > report.log[j].key_ep

\* The min_score of a show as the claim has it.
ClaimedMinScore(profile, first_sync, wanted_count) ==
  LET base == IF profile # None THEN Val(profile) ELSE 70
      lowered == IF first_sync THEN Max(55, base - 10) ELSE base
  IN IF wanted_count >= 5 THEN Max(45, lowered - 10) ELSE lowered

(* C32: the effective min score of a show is the profile's min_score (70   *)
(* without a profile), lowered by 10 but not below 55 on bootstrap, then   *)
(* by a further 10 but not below 45 when 5 or more episodes are wanted,    *)
(* and it is never higher than the profile's min_score (specification      *)
(* FunctionSpec).                                                          *)
C32_MinScoreNeverAboveProfile ==
  report.op = "min_score" =>
    /\ report.min_score
         = ClaimedMinScore(report.profile, report.first_sync, report.wanted_count)
    /\ report.min_score <= (IF report.profile # None THEN Val(report.profile) ELSE 70)

(* C32, the rest: every Release row a poll creates has a score that is at  *)
(* least the effective min score of the poll (specification Spec).         *)
C32_EnqueuedAtLeastMinScore ==
  Polled =>
    /\ report.min_score
         = EffectiveMinScore(None, report.first_sync, report.wanted_count)
    /\ \A i \in 1..Len(report.log) : report.log[i].score >= report.min_score

\* A poll has enqueued a candidate whose score is below the profile's
\* min_score.
C32_WitnessLowered ==
  /\ Polled
  /\ \E i \in 1..Len(report.log) : report.log[i].ok /\ report.log[i].score < 70

\* The calls of a poll that the client took, and the ep_no they were for.
OkCalls(log) == {i \in 1..Len(log) : log[i].ok}

(* C33: when add_magnet raises, the attempt is counted and creates no row: *)
(* the Release rows a poll adds are one per call the client took, under    *)
(* the ep_no of these calls, and the Episode rows it adds are rows in      *)
(* state aired of those ep_no; a poll makes at most max_enqueue_attempts   *)
(* calls of add_magnet; and a rejected call does not end the selection,    *)
(* which stops only when both loops are through, or at the cap of added    *)
(* episodes, the cap of attempts or the time budget.                       *)
C33_RejectedAddLeavesNoRow ==
  [][ report'.op = "poll" /\ ~report'.skipped =>
        LET log == report'.log
            ok_eps == {log[i].ep_no : i \in OkCalls(log)}
        IN /\ releases \sqsubseteq releases'
           /\ BagCardinality(releases') - BagCardinality(releases)
                = Cardinality(OkCalls(log))
           /\ \A r \in BagToSet(releases') :
                CopiesIn(r, releases') > CopiesIn(r, releases)
                  => r.show_id = report'.show_id /\ r.ep_no \in ok_eps
           /\ episodes \sqsubseteq episodes'
           /\ \A e \in BagToSet(episodes') :
                CopiesIn(e, episodes') > CopiesIn(e, episodes)
                  => /\ e.show_id = report'.show_id /\ e.ep_no \in ok_eps
                     /\ e.state = "aired"
           /\ report'.client_calls = Len(log)
           /\ report'.attempts >= Len(log)
           /\ report'.attempts <= MaxEnqueueAttempts
           /\ \/ report'.exhausted
              \/ report'.added >= max_add_per_show_per_cycle
              \/ report'.attempts >= MaxEnqueueAttempts
              \/ report'.timed_out
    ]_vars

\* The client has rejected a call of a poll and taken a later one.
C33_Witness ==
  /\ Polled
  /\ \E i, j \in 1..Len(report.log) :
       i < j /\ ~report.log[i].ok /\ report.log[j].ok

\* A poll has stopped at the cap of attempts, candidates left.
C33_WitnessCap ==
  /\ Polled
  /\ report.client_calls = MaxEnqueueAttempts
  /\ ~report.exhausted

---------------------------------------------------------------------------
(***************************************************************************)
(* Claims about a run of the reconciler over several files (specification  *)
(* ReconcileRunSpec).                                                      *)
(***************************************************************************)

(* C34: a move that fails skips its file and does not abort the run, and   *)
(* the promotions of the files organized before it are committed: a run    *)
(* returns only after its last file, and whenever no run is under way      *)
(* every episode recorded in the manifest of a show has an Episode row in  *)
(* state downloaded.                                                      *)
C34_FailedMoveSkipsOnlyThatFile ==
  /\ report.op = "reconcile_run" => ~report.raised /\ report.left = 0
  /\ sessions["reconciler"] = IdleSession =>
       \A s \in DOMAIN shows, n \in 1..MaxEp :
         EpisodeKey(InferSeason(s), n) \in DOMAIN LoadManifest(TitleOf(s)).episodes
           => \E e \in RowsOf(episodes, s) : e.ep_no = n /\ e.state = "downloaded"

---------------------------------------------------------------------------
(***************************************************************************)
(* Claims about the manifest file (specification ManifestCrashSpec).       *)
(***************************************************************************)

(* C35: when the process dies during save_manifest, the manifest file      *)
(* holds the complete previous document or the complete new one, and a     *)
(* later load_manifest returns every entry recorded before.                *)
C35_SaveIsCrashAtomic ==
  [][ mcall'.fn = "crash" =>
        LET series == mcall'.series
            before == LoadFile(mfile[series])
            after == LoadFile(mfile'[series])
        IN /\ \/ mfile'[series] = mfile[series]
              \/ mfile'[series]
                   = JsonDump(RecordedManifest(series, mcall'.season, mcall'.ep_no,
                                               mcall'.path, mcall'.md5))
           /\ \A key \in DOMAIN before.episodes :
                key \in DOMAIN after.episodes
                  /\ (key # EpisodeKey(mcall'.season, mcall'.ep_no)
                        => after.episodes[key] = before.episodes[key])
    ]_vars

---------------------------------------------------------------------------
(***************************************************************************)
(* Claims about the torrent maintenance (specification MaintenanceSpec).   *)
(***************************************************************************)
Cleaned == report.op = "cleanup_stalled" /\ "infos" \in DOMAIN report

(* C36: a run of the maintenance removes every torrent the client reports  *)
(* whose save_path is the save path of a complete show or lies under it,   *)
(* whatever the state of the torrent.                                      *)
C36_TorrentsOfCompleteShowsRemoved ==
  [][ report'.op = "cleanup_stalled" =>
        \A t \in report'.infos :
          (\E p \in CompleteShowSavePaths : IsUnder(t.save_path, p))
            => t.hash \in report'.remove_hashes
    ]_vars

(* C37: after a run of the maintenance no Release row is left for an       *)
(* episode whose Episode row is downloaded, and none whose magnet holds    *)
(* the hash of a torrent the run removed; a Release row younger than       *)
(* 2 * max_age whose episode is not downloaded and whose torrent was not   *)
(* removed is left as it is; no Episode or Show row changes.               *)
C37_PruneLeavesYoungRows ==
  [][ report'.op = "cleanup_stalled" =>
        LET downloaded_eps == {<<e.show_id, e.ep_no>> :
                                 e \in {x \in BagToSet(episodes) : x.state = "downloaded"}}
            removed(r) == \E h \in report'.remove_hashes :
                            r.magnet_or_torrent = MagnetLink(h)
        IN /\ \A r \in BagToSet(releases') :
                /\ <<r.show_id, r.ep_no>> \notin downloaded_eps
                /\ ~removed(r)
           /\ \A r \in BagToSet(releases) :
                (/\ r \notin report'.old
                 /\ <<r.show_id, r.ep_no>> \notin downloaded_eps
                 /\ ~removed(r))
                => CopiesIn(r, releases') = CopiesIn(r, releases)
           /\ releases' \sqsubseteq releases
           /\ episodes' = episodes
           /\ shows' = shows
    ]_vars

\* A run has removed a torrent and pruned a Release row, and has left
\* another.
C37_Witness ==
  /\ Cleaned
  /\ report.remove_hashes # {}
  /\ report.pruned > 0
  /\ releases # EmptyBag

---------------------------------------------------------------------------
(***************************************************************************)
(* Claims about the feed fetch loop (specification FunctionSpec).          *)
(***************************************************************************)

(* C38: under a deadline every request of the loop is started with time    *)
(* remaining and gets the timeout min(default, remaining), which is never  *)
(* longer than the time that remains; a feed whose request fails is        *)
(* skipped and the loop goes on: it ends at the deadline or after the last *)
(* feed.                                                                   *)
C38_TimeoutWithinRemaining ==
  report.op = "fetch_candidates" /\ report.max_total_time_sec # None =>
    /\ \A i \in 1..Len(report.requests) :
         LET request == report.requests[i]
             remaining == Val(request.remaining)
         IN /\ remaining > 0
            /\ 2 * request.timeout <= remaining
            /\ remaining >= 2 * rss_timeout_sec => request.timeout = rss_timeout_sec
    /\ report.stopped \/ Len(report.requests) = report.feeds

---------------------------------------------------------------------------
(***************************************************************************)
(* Claims about concurrent invocations of the pipeline (specification      *)
(* PipelinesSpec).                                                         *)
(***************************************************************************)

(* C39: when two invocations of the pipeline cover the same show           *)
(* concurrently, no episode of the show has more than one Release row and  *)
(* the torrent client gets at most one add for an episode across both.     *)
C39_OneEnqueuePerEpisode ==
  \A s \in DOMAIN shows, n \in 1..MaxEp :
    /\ BagCardinality([r \in {x \in RowsOf(releases, s) : x.ep_no = n}
                          |-> releases[r]]) <= 1
    /\ Cardinality({i \in Invocations :
                      /\ sessions[i].at = "returned"
                      /\ \E a \in sessions[i].added : a[1] = n}) <= 1

---------------------------------------------------------------------------
(***************************************************************************)
(* Claims about lost torrents (specification LostTorrentSpec).             *)
(***************************************************************************)
\* The Release rows there can be.
ReleaseRows ==
  [show_id : ShowIds, ep_no : 1..MaxEp,
   magnet_or_torrent : {c.link : c \in PagedFeed}]

\* r is a row whose torrent the client does not hold.
LostRow(r) ==
  /\ r \in BagToSet(releases)
  /\ \A t \in qbit.torrents : t.hash # InfoHash(r.magnet_or_torrent)

\* No step adds a Release row for an episode that has one.
NeverEnqueuedAgain ==
  [][\A r \in BagToSet(releases') :
       CopiesIn(r, releases') > CopiesIn(r, releases)
         => ~\E x \in BagToSet(releases) : x.show_id = r.show_id /\ x.ep_no = r.ep_no]_vars

(* C40 as stated: an episode that has a Release row is never enqueued      *)
(* again while the row exists, and the row of a torrent that the client    *)
(* has lost is deleted in the end by the runs of the maintenance.          *)
C40_LostTorrentNeverBlocks ==
  /\ NeverEnqueuedAgain
  /\ \A r \in ReleaseRows : LostRow(r) ~> ~LostRow(r)

(* C40, amended: an episode that has a Release row is never enqueued again *)
(* while the row exists; the row of a lost torrent is deleted in the end   *)
(* when its link holds an info hash, and, when it holds none, unless the   *)
(* title of the row matches the name of a torrent of the client.           *)
C40_LostTorrentWithHashNeverBlocks ==
  /\ NeverEnqueuedAgain
  /\ \A r \in ReleaseRows :
       LostRow(r) ~> \/ ~LostRow(r)
                     \/ /\ ExtractBtih(r.magnet_or_torrent) = None
                        /\ Present(ReleaseTitle(r), {t.name : t \in qbit.torrents})

\* The pipeline has enqueued again an episode the row of which was deleted
\* after its torrent was lost.
C40_Witness ==
  /\ report.op = "poll"
  /\ report.added > 0
  /\ \E r \in BagToSet(releases) :
       /\ r.show_id = report.show_id
       /\ <<r.show_id, r.ep_no>> \in qbit.pruned
       /\ r \notin qbit.old

=============================================================================
